---- MODULE Spec2Model ----
(***************************************************************************)
(* SATERYS web client (saterys/web/src/App.svelte): the graph model of the *)
(* canvas (nodes, edges, connect handles), the derived active subgraph,    *)
(* the topological scheduler, the pipeline runner, the schedule manager    *)
(* (schedule modal, schedule list, job operations) and the run monitor     *)
(* (openJobLogs, pollLatestRun, the poll timer).                           *)
(*                                                                         *)
(* Node ids are the strings the code builds (`n${nextNodeIndex++}`), edge  *)
(* ids likewise (`e${nextEdgeId++}`).  A node is the record                *)
(* [id, type, args]; position and label never reach the graph logic and    *)
(* are left out.  An edge is [id, source, target].                         *)
(***************************************************************************)
EXTENDS Integers, Sequences, FiniteSets, TLC

VARIABLES
    nodes,          \* let nodes: NodeData[]                       (l. 33)
    nextNodeIndex,  \* let nextNodeIndex = 1                        (l. 34)
    edges,          \* let edges: EdgeData[]                        (l. 35)
    nextEdgeId,     \* let nextEdgeId = 1                           (l. 36)
    pendingSource,  \* let pendingSource: string | null             (l. 37)
    argsText,       \* let argsText: Record<string,string>          (l. 40)
    overlayLayers,  \* let overlayLayers: Map<string, L.TileLayer>  (l. 323)
    logs,           \* let logs: LogLine[]                         (l. 172)
    running,        \* let running = false                         (l. 173)
    lastOutputs,    \* let lastOutputs: Record<string, any>        (l. 174)
    showLogs,       \* let showLogs = false                        (l. 177)
    run,            \* the suspended runPipeline call: its locals and position
    requests,       \* history: the POST /run_node bodies sent, in order
    showPipelineScheduleModal,  \* let showPipelineScheduleModal = false   (l. 594)
    scheduleMode,               \* let scheduleMode = 'once'               (l. 595)
    scheduleLocalDateTime,      \* let scheduleLocalDateTime = ''          (l. 596)
    scheduleHours,              \* let scheduleHours = 0                   (l. 597)
    scheduleMinutes,            \* let scheduleMinutes = 0                 (l. 597)
    scheduleSeconds,            \* let scheduleSeconds = 0                 (l. 597)
    scheduleCron,               \* let scheduleCron = '0 5 * * *'          (l. 598)
    scheduleSubmitting,         \* let scheduleSubmitting = false          (l. 599)
    scheduleError,              \* let scheduleError = ''                  (l. 600)
    schedules,                  \* let schedules: Schedule[] = []          (l. 601)
    calls,          \* the suspended calls of the schedule manager, oldest first
    runPollTimer,   \* let runPollTimer: any = null                (l. 538)
    polls,          \* the suspended pollLatestRun calls, oldest first
    latestRun,      \* the server: status of the latest run of each job
    destroyed,      \* the component has been destroyed (onDestroy has run)
    watch,          \* history: the job of the last openJobLogs and what its polls saw
    mapReady,       \* map and layerControl have been created     (l. 322, 324)
    mapLayers,      \* the overlay layers added to the Leaflet map
    controlLayers,  \* the overlays listed in the layer control
    nextLayer,      \* the number of the next L.tileLayer object created
    previews,       \* the suspended previewNode calls, oldest first
    runOnes,        \* the suspended run-this-node-only handlers, oldest first
    newestList,     \* history: the schedule-list request issued last, and its answer
    last            \* history: the operation of the last step, its arguments, its result

vars == <<nodes, nextNodeIndex, edges, nextEdgeId, pendingSource, argsText,
          overlayLayers, logs, running, lastOutputs, showLogs, run, requests,
          showPipelineScheduleModal, scheduleMode, scheduleLocalDateTime,
          scheduleHours, scheduleMinutes, scheduleSeconds, scheduleCron,
          scheduleSubmitting, scheduleError, schedules, calls,
          runPollTimer, polls, latestRun, destroyed, watch,
          mapReady, mapLayers, controlLayers, nextLayer, previews, runOnes,
          newestList, last>>

editorVars == <<nodes, nextNodeIndex, edges, nextEdgeId, pendingSource, argsText,
                overlayLayers>>
mapVars == <<mapReady, mapLayers, controlLayers, nextLayer, previews>>
toolVars == <<mapVars, runOnes>>
canvasVars == <<editorVars, toolVars, newestList>>
runVars == <<logs, running, lastOutputs, showLogs, run, requests>>
formVars == <<scheduleMode, scheduleLocalDateTime, scheduleHours, scheduleMinutes,
              scheduleSeconds, scheduleCron>>
schedVars == <<showPipelineScheduleModal, formVars, scheduleSubmitting, scheduleError,
               schedules, calls>>
monitorVars == <<runPollTimer, polls, latestRun, destroyed, watch>>
panelVars == <<schedVars, monitorVars, toolVars, newestList>>

(***************************************************************************)
(* Bounds of the model.                                                    *)
(***************************************************************************)
\* addNode is taken while nextNodeIndex <= MaxNodeIndex
MaxNodeIndex == 3
\* an edge is created while nextEdgeId <= MaxEdgeId
MaxEdgeId == 2
\* longest edge list handed to the pure functions
MaxEdgeList == 3
\* longest edge list of a canvas on which a run is started
MaxRunEdges == 2

\* pendingSource = null
NULL == "null"
\* what a lookup that finds nothing yields: undefined
UNDEFINED == [undefined |-> TRUE]

Range(s) == {s[i] : i \in 1..Len(s)}
NodeIdOf(k) == "n" \o ToString(k)
EdgeIdOf(k) == "e" \o ToString(k)
IdsOf(nodeList) == {nodeList[i].id : i \in 1..Len(nodeList)}

\* TYPES[0] and its default_args, as addNode uses them
DefaultType == "hello"
DefaultArgs == "{name:world}"
\* JSON.stringify(args, null, 2)
Stringify(args) == <<"json", args>>

(***************************************************************************)
(* Graph model: pure functions.                                            *)
(***************************************************************************)
\* const nodeById = (id) => nodes.find(n => n.id === id); UNDEFINED when absent
nodeById(nodeList, id) ==
    IF \E i \in 1..Len(nodeList) : nodeList[i].id = id
    THEN nodeList[CHOOSE i \in 1..Len(nodeList) :
                    /\ nodeList[i].id = id
                    /\ \A j \in 1..(i-1) : nodeList[j].id # id]
    ELSE UNDEFINED

InvolvedSourcesOnly(edgeList) == {edgeList[i].source : i \in 1..Len(edgeList)}

\* the Set `involved`: every edge's source and target
Involved(edgeList) ==
    {edgeList[i].source : i \in 1..Len(edgeList)} \cup
    {edgeList[i].target : i \in 1..Len(edgeList)}

\* edges.filter(e => set.has(e.source) && set.has(e.target))
EdgesWithin(edgeList, set) ==
    SelectSeq(edgeList, LAMBDA e : e.source \in set /\ e.target \in set)

activeGraphAllNodes(nodeList, edgeList) ==
    [activeNodes |-> nodeList, activeEdges |-> EdgesWithin(edgeList, IdsOf(nodeList))]

\* function activeGraph(), reading nodes and edges   (l. 137-144)
activeGraph(nodeList, edgeList) ==
    LET involved    == Involved(edgeList)
        activeNodes == SelectSeq(nodeList, LAMBDA n : n.id \in involved)
        set         == IdsOf(activeNodes)
        activeEdges == EdgesWithin(edgeList, set)
    IN  [activeNodes |-> activeNodes, activeEdges |-> activeEdges]

(***************************************************************************)
(* Topological scheduler.                                                  *)
(***************************************************************************)
\* the loop over edgeList that fills adj and indeg (l. 152-156)
RECURSIVE TopoScan(_, _, _, _, _)
TopoScan(edgeList, i, idSet, adj, indeg) ==
    IF i > Len(edgeList) THEN [adj |-> adj, indeg |-> indeg]
    ELSE LET e == edgeList[i] IN
         IF e.source \notin idSet \/ e.target \notin idSet
         THEN TopoScan(edgeList, i + 1, idSet, adj, indeg)
         ELSE TopoScan(edgeList, i + 1, idSet,
                       [adj EXCEPT ![e.source] = Append(@, e.target)],
                       [indeg EXCEPT ![e.target] = @ + 1])

SeedQueueAll(ids, indeg) == ids

SeedQueueIndegAtMostOne(ids, indeg) == SelectSeq(ids, LAMBDA id : indeg[id] <= 1)

\* for (const id of ids) if ((indeg.get(id) || 0) === 0) q.push(id)   (l. 158)
SeedQueue(ids, indeg) == SelectSeq(ids, LAMBDA id : indeg[id] = 0)

EnqueueFront(q, v) == <<v>> \o q

\* q.push(v)
Enqueue(q, v) == Append(q, v)

\* (indeg.get(v) || 0) === 0 after the decrement
Ready(d) == d = 0

\* the inner loop over adj.get(u) (l. 163-166)
RECURSIVE TopoRelax(_, _, _, _)
TopoRelax(succ, j, q, indeg) ==
    IF j > Len(succ) THEN [q |-> q, indeg |-> indeg]
    ELSE LET v == succ[j]
             d == indeg[v] - 1
         IN  TopoRelax(succ, j + 1,
                       IF Ready(d) THEN Enqueue(q, v) ELSE q,
                       [indeg EXCEPT ![v] = d])

\* while (q.length) { u = q.shift(); order.push(u); ... }   (l. 160-167)
RECURSIVE TopoLoop(_, _, _, _)
TopoLoop(q, order, adj, indeg) ==
    IF q = <<>> THEN order
    ELSE LET u == Head(q)
             r == TopoRelax(adj[u], 1, Tail(q), indeg)
         IN  TopoLoop(r.q, Append(order, u), adj, r.indeg)

\* function topoOrder(nodeList, edgeList): string[]   (l. 146-169)
topoOrder(nodeList, edgeList) ==
    LET ids   == [i \in 1..Len(nodeList) |-> nodeList[i].id]
        idSet == Range(ids)
        built == TopoScan(edgeList, 1, idSet,
                          [id \in idSet |-> <<>>], [id \in idSet |-> 0])
        q     == SeedQueue(ids, built.indeg)
    IN  TopoLoop(q, <<>>, built.adj, built.indeg)

(***************************************************************************)
(* Reactive blocks ($:), run by Svelte's flush right after a handler that  *)
(* assigned nodes, edges or argsText, before any other handler runs.       *)
(***************************************************************************)
\* $: for (const n of nodes) if (argsText[n.id] === undefined) argsText[n.id] = ...
InitArgsText(nodeList, at) ==
    [id \in (DOMAIN at) \cup IdsOf(nodeList) |->
        IF id \in DOMAIN at THEN at[id]
        ELSE Stringify(nodeById(nodeList, id).args)]

PruneEdgesBySourceOnly(nodeList, edgeList) ==
    SelectSeq(edgeList, LAMBDA e : e.source \in IdsOf(nodeList))

\* $: pruned = edges.filter(e => ids.has(e.source) && ids.has(e.target));
\*    if (pruned.length !== edges.length) edges = pruned
PruneEdges(nodeList, edgeList) ==
    LET pruned == EdgesWithin(edgeList, IdsOf(nodeList))
    IN  IF Len(pruned) # Len(edgeList) THEN pruned ELSE edgeList

\* the request for the schedule list issued last: at is the place in calls of
\* the call that awaits its answer (0 once it is answered or before any was
\* issued), shown says that it was answered with a list, list is that list
NoListAsked == [at |-> 0, shown |-> FALSE, list |-> <<>>]
ListAsked(i) == [at |-> i, shown |-> FALSE, list |-> <<>>]

(***************************************************************************)
(* The map before onMount has created it.  A layer is the pair of the node *)
(* id it was created for and the number of the L.tileLayer call.           *)
(***************************************************************************)
\* new Map()   (l. 323)
NoLayers == [id \in {} |-> <<>>]

InitMap ==
    /\ mapReady = FALSE
    /\ mapLayers = {}
    /\ controlLayers = {}
    /\ nextLayer = 1
    /\ previews = <<>>
    /\ runOnes = <<>>

(***************************************************************************)
(* The schedule panel and the run monitor before any use.                  *)
(***************************************************************************)
\* the jobs the server may list
JobIds == {"j1", "j2"}

\* a number input bound with bind:value holds a number, or null when emptied
Num(n) == [n |-> n]
EMPTY == [empty |-> TRUE]

\* a text is the sequence of its pieces: " " is one white-space character,
\* any other piece a run of characters without white space
DefaultCron == <<"0 5 * * *">>

InitSchedulePanel ==
    /\ showPipelineScheduleModal = FALSE
    /\ scheduleMode = "once"
    /\ scheduleLocalDateTime = ""
    /\ scheduleHours = Num(0)
    /\ scheduleMinutes = Num(0)
    /\ scheduleSeconds = Num(0)
    /\ scheduleCron = DefaultCron
    /\ scheduleSubmitting = FALSE
    /\ scheduleError = ""
    /\ schedules = <<>>
    /\ calls = <<>>

InitRunMonitor ==
    /\ runPollTimer = NULL
    /\ polls = <<>>
    /\ latestRun = [j \in JobIds |-> "none"]
    /\ destroyed = FALSE
    /\ watch = [job |-> NULL, established |-> FALSE, sawTerminal |-> FALSE]

(***************************************************************************)
(* Canvas operations.                                                      *)
(***************************************************************************)
Init ==
    /\ nodes = <<>>
    /\ nextNodeIndex = 1
    /\ edges = <<>>
    /\ nextEdgeId = 1
    /\ pendingSource = NULL
    /\ argsText = [id \in {} |-> ""]
    /\ overlayLayers = NoLayers
    /\ InitMap
    /\ newestList = NoListAsked
    /\ logs = <<>>
    /\ running = FALSE
    /\ lastOutputs = [id \in {} |-> ""]
    /\ showLogs = FALSE
    /\ run = [pc |-> "idle", order |-> <<>>, k |-> 1, active |-> 0,
              upstreamOf |-> [t \in {} |-> <<>>], done |-> <<>>]
    /\ requests = <<>>
    /\ InitSchedulePanel
    /\ InitRunMonitor
    /\ last = [op |-> "init"]

\* every id addNode can have produced, and the ids a caller may pass
AllNodeIds == {NodeIdOf(k) : k \in 1..MaxNodeIndex}

EndpointsValidNoSelfCheck(nodeList, source, target) ==
    nodeById(nodeList, source) # UNDEFINED /\ nodeById(nodeList, target) # UNDEFINED

\* the negation of the first guard of addEdge (l. 120)
EndpointsValid(nodeList, source, target) ==
    /\ nodeById(nodeList, source) # UNDEFINED
    /\ nodeById(nodeList, target) # UNDEFINED
    /\ source # target

PairExistsNever(edgeList, source, target) == FALSE

\* edges.some(e => e.source === source && e.target === target)   (l. 121)
PairExists(edgeList, source, target) ==
    \E i \in 1..Len(edgeList) :
        edgeList[i].source = source /\ edgeList[i].target = target

\* addEdge: the edge list and counter it leaves, and whether it added an edge
addEdge(nodeList, edgeList, edgeId, source, target) ==
    IF ~EndpointsValid(nodeList, source, target)
    THEN [edges |-> edgeList, nextEdgeId |-> edgeId, added |-> FALSE]
    ELSE IF PairExists(edgeList, source, target)
    THEN [edges |-> edgeList, nextEdgeId |-> edgeId, added |-> FALSE]
    ELSE [edges |-> Append(edgeList, [id |-> EdgeIdOf(edgeId),
                                      source |-> source, target |-> target]),
          nextEdgeId |-> edgeId + 1, added |-> TRUE]

\* function addNode()   (l. 257-266)
AddNode ==
    /\ nextNodeIndex <= MaxNodeIndex
    /\ LET id == NodeIdOf(nextNodeIndex)
           ns == Append(nodes, [id |-> id, type |-> DefaultType, args |-> DefaultArgs])
           at == [k \in (DOMAIN argsText) \cup {id} |->
                    IF k = id THEN Stringify(DefaultArgs) ELSE argsText[k]]
       IN  /\ nodes' = ns
           /\ nextNodeIndex' = nextNodeIndex + 1
           /\ argsText' = InitArgsText(ns, at)
           /\ edges' = PruneEdges(ns, edges)
           /\ last' = [op |-> "addNode", id |-> id]
    /\ UNCHANGED <<nextEdgeId, pendingSource, overlayLayers>>
    /\ UNCHANGED runVars
    /\ UNCHANGED panelVars

LayerNeverReleased(registry, id, ready) == FALSE

\* if (overlayLayers.has(id) && map && layerControl)   (l. 127)
LayerReleased(registry, id, ready) == id \in DOMAIN registry /\ ready

\* function deleteNode(id), from the node's delete button   (l. 125-135, 1131)
DeleteNode(id) ==
    /\ id \in IdsOf(nodes)
    /\ LET ns == SelectSeq(nodes, LAMBDA n : n.id # id)
           at == [k \in (DOMAIN argsText) \ {id} |-> argsText[k]]
       IN  /\ IF LayerReleased(overlayLayers, id, mapReady)
              THEN /\ mapLayers' = mapLayers \ {overlayLayers[id]}
                   /\ controlLayers' = controlLayers \ {overlayLayers[id]}
                   /\ overlayLayers' = [k \in (DOMAIN overlayLayers) \ {id} |-> overlayLayers[k]]
              ELSE UNCHANGED <<mapLayers, controlLayers, overlayLayers>>
           /\ nodes' = ns
           /\ argsText' = InitArgsText(ns, at)
           /\ edges' = PruneEdges(ns, edges)
           /\ last' = [op |-> "deleteNode", id |-> id,
                       touched |-> \E i \in 1..Len(edges) :
                                      edges[i].source = id \/ edges[i].target = id]
    /\ UNCHANGED <<nextNodeIndex, nextEdgeId, pendingSource>>
    /\ UNCHANGED runVars
    /\ UNCHANGED <<schedVars, monitorVars, mapReady, nextLayer, previews, runOnes,
                   newestList>>

\* function deleteEdgeById(id), from the edge pill's remove button   (l. 124, 1060)
DeleteEdgeById(id) ==
    /\ \E i \in 1..Len(edges) : edges[i].id = id
    /\ edges' = PruneEdges(nodes, SelectSeq(edges, LAMBDA e : e.id # id))
    /\ last' = [op |-> "deleteEdgeById", id |-> id]
    /\ UNCHANGED <<nodes, nextNodeIndex, nextEdgeId, pendingSource, argsText, overlayLayers>>
    /\ UNCHANGED runVars
    /\ UNCHANGED panelVars

\* function clickOutput(nodeId)   (l. 268, 1128)
ClickOutput(nodeId) ==
    /\ nodeId \in IdsOf(nodes)
    /\ pendingSource' = nodeId
    /\ last' = [op |-> "clickOutput", id |-> nodeId]
    /\ UNCHANGED <<nodes, nextNodeIndex, edges, nextEdgeId, argsText, overlayLayers>>
    /\ UNCHANGED runVars
    /\ UNCHANGED panelVars

\* addEdge(source, target) and the reactive blocks after it
AddEdgeStep(source, target) ==
    LET r == addEdge(nodes, edges, nextEdgeId, source, target)
    IN  /\ r.added => nextEdgeId <= MaxEdgeId
        /\ edges' = PruneEdges(nodes, r.edges)
        /\ nextEdgeId' = r.nextEdgeId
        /\ last' = [op |-> "addEdge", source |-> source, target |-> target,
                    added |-> r.added,
                    existed |-> PairExists(edges, source, target)]

\* function clickInput(targetId)   (l. 269, 1127)
ClickInput(targetId) ==
    /\ targetId \in IdsOf(nodes)
    /\ IF pendingSource # NULL
       THEN AddEdgeStep(pendingSource, targetId)
       ELSE /\ UNCHANGED <<edges, nextEdgeId>>
            /\ last' = [op |-> "clickInput", id |-> targetId]
    /\ pendingSource' = NULL
    /\ UNCHANGED <<nodes, nextNodeIndex, argsText, overlayLayers>>
    /\ UNCHANGED runVars
    /\ UNCHANGED panelVars

\* function cancelPending()   (l. 270)
CancelPending ==
    /\ pendingSource # NULL
    /\ pendingSource' = NULL
    /\ last' = [op |-> "cancelPending"]
    /\ UNCHANGED <<nodes, nextNodeIndex, edges, nextEdgeId, argsText, overlayLayers>>
    /\ UNCHANGED runVars
    /\ UNCHANGED panelVars

\* function addEdge(source, target) called with any two ids   (l. 119-123)
AddEdge(source, target) ==
    /\ AddEdgeStep(source, target)
    /\ UNCHANGED <<nodes, nextNodeIndex, pendingSource, argsText, overlayLayers>>
    /\ UNCHANGED runVars
    /\ UNCHANGED panelVars

NextCanvas ==
    \/ AddNode
    \/ \E id \in AllNodeIds : DeleteNode(id)
    \/ \E k \in 1..MaxEdgeId : DeleteEdgeById(EdgeIdOf(k))
    \/ \E id \in AllNodeIds : ClickOutput(id)
    \/ \E id \in AllNodeIds : ClickInput(id)
    \/ CancelPending
    \/ \E s \in AllNodeIds, t \in AllNodeIds : AddEdge(s, t)

SpecCanvas == Init /\ [][NextCanvas]_vars

(***************************************************************************)
(* Pipeline runner.                                                        *)
(***************************************************************************)
\* type LogLine = { nodeId, ok, text }
LogLine(nodeId, ok, text) == [nodeId |-> nodeId, ok |-> ok, text |-> text]

pushLogFront(lg, nodeId, ok, text) == <<LogLine(nodeId, ok, text)>> \o lg

\* function pushLog(nodeId, ok, text): logs = [...logs, {nodeId, ok, text}]
pushLog(lg, nodeId, ok, text) == Append(lg, LogLine(nodeId, ok, text))

\* the texts runPipeline writes itself
TextNoNodes == "No connected nodes to run."
TextCycle   == "Warning: cycle detected; running partial order."
TextRunning == "> Running..."

(* What one POST /run_node can come back with:                             *)
(*   throw   - fetch rejects (transport failure), runNode throws           *)
(*   badjson - res.json() rejects, runNode returns {ok:false,error:'Bad JSON'} *)
(*   data    - the parsed body {ok, output?, logs?, stdout?, error?};      *)
(*             stdout is given as the pieces stdout.split(/\r?\n/) yields  *)
(* http is the status class of the response (none when fetch rejected);    *)
(* runNode never reads res.ok or res.status.                               *)
ExecutorResponses ==
    { [kind |-> "throw", http |-> "none"],
      [kind |-> "badjson", http |-> "2xx"],
      [kind |-> "data", http |-> "2xx", ok |-> TRUE,  output |-> [text |-> "o1"],
       logs |-> <<>>, stdout |-> <<>>, error |-> ""],
      [kind |-> "data", http |-> "2xx", ok |-> TRUE,  output |-> [text |-> "o2"],
       logs |-> <<"l1", "">>, stdout |-> <<"s1", "">>, error |-> ""],
      [kind |-> "data", http |-> "2xx", ok |-> FALSE, output |-> UNDEFINED,
       logs |-> <<"l1">>, stdout |-> <<>>, error |-> "boom"],
      [kind |-> "data", http |-> "5xx", ok |-> TRUE,  output |-> [text |-> "o1"],
       logs |-> <<>>, stdout |-> <<>>, error |-> ""] }

\* const data = await res.json().catch(() => ({ ok: false, error: 'Bad JSON' }))  (l. 201)
DataOf(resp) ==
    IF resp.kind = "badjson"
    THEN [kind |-> "data", http |-> resp.http, ok |-> FALSE, output |-> UNDEFINED,
          logs |-> <<>>, stdout |-> <<>>, error |-> "Bad JSON"]
    ELSE resp

\* for (const e of activeEdges) (upstreamOf[e.target] ??= []).push(e.source)  (l. 223-224)
UpstreamOf(activeEdges) ==
    [t \in {activeEdges[i].target : i \in 1..Len(activeEdges)} |->
        LET into == SelectSeq(activeEdges, LAMBDA e : e.target = t)
        IN  [i \in 1..Len(into) |-> into[i].source]]

InputsFromAllOutputs(upstreamOf, outputs, id) == outputs

\* for (const up of upstreamOf[id] ?? []) inputs[up] = lastOutputs[up]   (l. 228-229)
InputsFor(upstreamOf, outputs, id) ==
    LET ups == IF id \in DOMAIN upstreamOf THEN Range(upstreamOf[id]) ELSE {}
    IN  [up \in ups |-> IF up \in DOMAIN outputs THEN outputs[up] ELSE UNDEFINED]

\* JSON.stringify drops the properties whose value is undefined   (l. 194-199)
StringifyInputs(inputs) ==
    [up \in {k \in DOMAIN inputs : inputs[k] # UNDEFINED} |-> inputs[up]]

\* the body of POST /run_node   (l. 194-199)
RequestBody(node, inputs) ==
    [nodeId |-> node.id, type |-> node.type, args |-> node.args,
     inputs |-> StringifyInputs(inputs)]

\* pushLog for each element of a list of executor lines, blank ones dropped when asked
RECURSIVE pushLines(_, _, _, _, _)
pushLines(lg, nodeId, lines, i, skipBlank) ==
    IF i > Len(lines) THEN lg
    ELSE pushLines(IF skipBlank /\ lines[i] = "" THEN lg
                   ELSE pushLog(lg, nodeId, TRUE, lines[i]),
                   nodeId, lines, i + 1, skipBlank)

NextIndexStopOnFailure(order, k, failed) == IF failed THEN Len(order) + 1 ELSE k + 1

\* for (const id of order) { try {...} catch {...} }: the index the loop takes
\* after the node at k, whatever its outcome   (l. 226, 249-252)
NextIndex(order, k, failed) == k + 1

\* if (data?.ok) lastOutputs[id] = data.output ?? {}   (l. 241-243)
StoreOutput(outputs, id, ok, out) ==
    IF ok
    THEN [k \in (DOMAIN outputs) \cup {id} |-> IF k = id THEN out ELSE outputs[k]]
    ELSE outputs

CycleWarningNever(order, activeNodes) == FALSE

\* if (order.length !== activeNodes.length)   (l. 219)
CycleWarningNeeded(order, activeNodes) == Len(order) # Len(activeNodes)

OutputsKeptAtStart(outputs) == outputs

\* lastOutputs = {}   (l. 208)
OutputsAtStart(outputs) == [id \in {} |-> UNDEFINED]

RunningKeptAtEnd == TRUE

\* running = false, after the loop   (l. 253)
RunningAtEnd == FALSE

RunningNotSetAtStart == FALSE

\* running = true   (l. 206)
RunningAtStart == TRUE

(* The loop from index k up to its next suspension: a node that nodeById   *)
(* no longer finds makes runNode throw on node.id before any request is    *)
(* sent, the catch writes its line and the loop goes on; the first node    *)
(* found has its request sent and the call suspends on the await.          *)
RECURSIVE RunFrom(_, _, _, _, _, _)
RunFrom(order, k, upstreamOf, nodeList, outputs, st) ==
    IF k > Len(order)
    THEN [st EXCEPT !.pc = "idle", !.k = k, !.running = RunningAtEnd]
    ELSE LET id     == order[k]
             n      == nodeById(nodeList, id)
             inputs == InputsFor(upstreamOf, outputs, id)
             lg     == pushLog(st.logs, id, TRUE, TextRunning)
         IN  IF n = UNDEFINED
             THEN RunFrom(order, NextIndex(order, k, TRUE), upstreamOf, nodeList, outputs,
                          [st EXCEPT !.logs = pushLog(lg, id, FALSE, "X Exception: TypeError"),
                                     !.done = Append(@, [id |-> id, failed |-> TRUE,
                                                         sent |-> FALSE])])
             ELSE [st EXCEPT !.pc = "awaiting", !.k = k, !.logs = lg,
                             !.requests = Append(@, RequestBody(n, inputs))]

\* async function runPipeline(), up to its first await or its return   (l. 205-234)
\* Both Run buttons are disabled while running   (l. 978, 1033)
RunPipeline ==
    /\ ~running
    /\ LET ag == activeGraph(nodes, edges) IN
       IF Len(ag.activeNodes) = 0
       THEN /\ logs' = pushLog(<<>>, "system", FALSE, TextNoNodes)
            /\ running' = FALSE
            /\ run' = [pc |-> "idle", order |-> <<>>, k |-> 1, active |-> 0,
                       upstreamOf |-> [t \in {} |-> <<>>], done |-> <<>>]
            /\ requests' = <<>>
            /\ last' = [op |-> "runPipeline", started |-> FALSE]
       ELSE LET order == topoOrder(ag.activeNodes, ag.activeEdges)
                lg0   == IF CycleWarningNeeded(order, ag.activeNodes)
                         THEN pushLog(<<>>, "system", FALSE, TextCycle)
                         ELSE <<>>
                up    == UpstreamOf(ag.activeEdges)
                st    == RunFrom(order, 1, up, nodes, OutputsAtStart(lastOutputs),
                                 [pc |-> "idle", k |-> 1, running |-> RunningAtStart, logs |-> lg0,
                                  requests |-> <<>>, done |-> <<>>])
            IN  /\ logs' = st.logs
                /\ running' = st.running
                /\ run' = [pc |-> st.pc, order |-> order, k |-> st.k,
                           active |-> Len(ag.activeNodes), upstreamOf |-> up, done |-> st.done]
                /\ requests' = st.requests
                /\ last' = [op |-> "runPipeline", started |-> TRUE]
    /\ lastOutputs' = OutputsAtStart(lastOutputs)
    /\ showLogs' = TRUE
    /\ UNCHANGED canvasVars
    /\ UNCHANGED panelVars

\* runPipeline resumed by the outcome of the request it awaits, up to its
\* next await or its end   (l. 234-253)
RunNodeReturns(resp) ==
    /\ run.pc = "awaiting"
    /\ LET id   == run.order[run.k]
           data == DataOf(resp)
           lg1  == IF resp.kind = "throw"
                   THEN pushLog(logs, id, FALSE, "X Exception: fetch failed")
                   ELSE LET a == pushLines(logs, id, data.logs, 1, FALSE)
                            b == pushLines(a, id, data.stdout, 1, TRUE)
                        IN  IF data.ok
                            THEN pushLog(b, id, TRUE, "OK " \o data.output.text)
                            ELSE pushLog(b, id, FALSE, "X " \o data.error)
           failed == resp.kind = "throw" \/ ~data.ok
           outs == IF resp.kind = "throw" THEN lastOutputs
                   ELSE StoreOutput(lastOutputs, id, data.ok, data.output)
           st   == RunFrom(run.order, NextIndex(run.order, run.k, failed),
                           run.upstreamOf, nodes, outs,
                           [pc |-> "idle", k |-> run.k, running |-> running, logs |-> lg1,
                            requests |-> requests,
                            done |-> Append(run.done, [id |-> id, failed |-> failed,
                                                     sent |-> TRUE])])
       IN  /\ logs' = st.logs
           /\ lastOutputs' = outs
           /\ running' = st.running
           /\ run' = [run EXCEPT !.pc = st.pc, !.k = st.k, !.done = st.done]
           /\ requests' = st.requests
           /\ last' = [op |-> "runNodeReturns", id |-> id, failed |-> failed,
                       http |-> resp.http,
                       returned |-> IF resp.kind = "throw" THEN <<>> ELSE <<data>>]
    /\ UNCHANGED showLogs
    /\ UNCHANGED canvasVars
    /\ UNCHANGED panelVars

(***************************************************************************)
(* The runner on every small canvas.  The canvases are those the editing   *)
(* operations leave behind after the reactive blocks have run: node ids    *)
(* unique, in creation order; every edge between two present nodes.        *)
(* Self-loops and repeated pairs are included, as applyAISuggestion and    *)
(* loadWorkflow append edges without addEdge's checks.  While a run is     *)
(* suspended the canvas stays live; of its handlers deleteNode is the one  *)
(* whose effect the run can read again (through nodeById).                 *)
(***************************************************************************)
CanvasNodeIds == {"n1", "n2", "n3"}
CanvasOrder == <<"n1", "n2", "n3">>

NodeOf(id) == [id |-> id, type |-> DefaultType, args |-> DefaultArgs]

\* the node lists holding the ids of S in creation order
NodeListOf(S) ==
    LET ordered == SelectSeq(CanvasOrder, LAMBDA id : id \in S)
    IN  [i \in 1..Len(ordered) |-> NodeOf(ordered[i])]

\* the edge lists of at most n edges over the ids of S, edge i carrying id e<i>
EdgeListsOver(S, n) ==
    UNION { { [i \in 1..len |-> [id |-> EdgeIdOf(i), source |-> p[i][1], target |-> p[i][2]]]
              : p \in [1..len -> S \X S] }
            : len \in 0..n }

InitRun ==
    /\ \E S \in SUBSET CanvasNodeIds :
          /\ nodes = NodeListOf(S)
          /\ edges \in EdgeListsOver(S, MaxRunEdges)
    /\ nextNodeIndex = Cardinality(CanvasNodeIds) + 1
    /\ nextEdgeId = Len(edges) + 1
    /\ pendingSource = NULL
    /\ argsText = InitArgsText(nodes, [id \in {} |-> ""])
    /\ overlayLayers = NoLayers
    /\ InitMap
    /\ newestList = NoListAsked
    /\ logs = <<>>
    /\ running = FALSE
    /\ lastOutputs = [id \in {} |-> UNDEFINED]
    /\ showLogs = FALSE
    /\ run = [pc |-> "idle", order |-> <<>>, k |-> 1, active |-> 0,
              upstreamOf |-> [t \in {} |-> <<>>], done |-> <<>>]
    /\ requests = <<>>
    /\ InitSchedulePanel
    /\ InitRunMonitor
    /\ last = [op |-> "init"]

NextRun ==
    \/ RunPipeline
    \/ \E resp \in ExecutorResponses : RunNodeReturns(resp)
    \/ \E id \in CanvasNodeIds : DeleteNode(id)

SpecRun == InitRun /\ [][NextRun]_vars

\* The same runner with the executor's side of the contract: a request that
\* is outstanding is eventually answered or fails (fetch settles its promise).
\* It is run on the three-node canvases of these shapes: no edge, one edge,
\* the chains in and against creation order, a join, a fork, a two-node cycle
\* and an edge into a self-loop.
LiveShapes ==
    { <<>>,
      << <<"n1", "n2">> >>,
      << <<"n1", "n2">>, <<"n2", "n3">> >>,
      << <<"n3", "n2">>, <<"n2", "n1">> >>,
      << <<"n1", "n3">>, <<"n2", "n3">> >>,
      << <<"n1", "n2">>, <<"n1", "n3">> >>,
      << <<"n1", "n2">>, <<"n2", "n1">> >>,
      << <<"n1", "n2">>, <<"n2", "n2">> >> }

InitRunLive ==
    /\ InitRun
    /\ Len(nodes) = Cardinality(CanvasNodeIds)
    /\ [i \in 1..Len(edges) |-> <<edges[i].source, edges[i].target>>] \in LiveShapes

SpecRunLive ==
    /\ InitRunLive
    /\ [][NextRun]_vars
    /\ WF_vars(\E resp \in ExecutorResponses : RunNodeReturns(resp))

(***************************************************************************)
(* activeGraph and topoOrder applied to every small node list and edge     *)
(* list: node ids unique, in any order; edges between any two of the three *)
(* ids, so that an edge dangles when the node list omits an endpoint;      *)
(* self-loops and repeated pairs included.                                 *)
(***************************************************************************)
\* the node lists over the ids of S, in every order
NodeListsOver(S) ==
    { [i \in 1..Cardinality(S) |-> NodeOf(f[i])] :
        f \in { g \in [1..Cardinality(S) -> S] :
                  \A i, j \in 1..Cardinality(S) : i # j => g[i] # g[j] } }

InitGraph ==
    /\ \E S \in SUBSET CanvasNodeIds : nodes \in NodeListsOver(S)
    /\ edges \in EdgeListsOver(CanvasNodeIds, MaxEdgeList)
    /\ nextNodeIndex = Cardinality(CanvasNodeIds) + 1
    /\ nextEdgeId = Len(edges) + 1
    /\ pendingSource = NULL
    /\ argsText = InitArgsText(nodes, [id \in {} |-> ""])
    /\ overlayLayers = NoLayers
    /\ InitMap
    /\ newestList = NoListAsked
    /\ logs = <<>>
    /\ running = FALSE
    /\ lastOutputs = [id \in {} |-> UNDEFINED]
    /\ showLogs = FALSE
    /\ run = [pc |-> "idle", order |-> <<>>, k |-> 1, active |-> 0,
              upstreamOf |-> [t \in {} |-> <<>>], done |-> <<>>]
    /\ requests = <<>>
    /\ InitSchedulePanel
    /\ InitRunMonitor
    /\ last = [op |-> "init"]

\* const { activeNodes, activeEdges } = activeGraph()   (l. 211)
CallActiveGraph ==
    /\ last.op = "init"
    /\ last' = [op |-> "activeGraph", nodeList |-> nodes, edgeList |-> edges,
                out |-> activeGraph(nodes, edges)]
    /\ UNCHANGED canvasVars
    /\ UNCHANGED runVars
    /\ UNCHANGED panelVars

\* activeGraph applied to the graph a first application returned
CallActiveGraphAgain ==
    /\ last.op = "activeGraph"
    /\ last' = [op |-> "activeGraphAgain",
                nodeList |-> last.out.activeNodes, edgeList |-> last.out.activeEdges,
                out |-> activeGraph(last.out.activeNodes, last.out.activeEdges)]
    /\ UNCHANGED canvasVars
    /\ UNCHANGED runVars
    /\ UNCHANGED panelVars

\* topoOrder(nodeList, edgeList) on the lists as they are
CallTopoOrder ==
    /\ last.op = "init"
    /\ last' = [op |-> "topoOrder", nodeList |-> nodes, edgeList |-> edges,
                out |-> topoOrder(nodes, edges)]
    /\ UNCHANGED canvasVars
    /\ UNCHANGED runVars
    /\ UNCHANGED panelVars

\* const order = topoOrder(activeNodes, activeEdges)   (l. 218)
CallTopoOrderActive ==
    /\ last.op = "activeGraph"
    /\ last' = [op |-> "topoOrderActive",
                nodeList |-> last.out.activeNodes, edgeList |-> last.out.activeEdges,
                out |-> topoOrder(last.out.activeNodes, last.out.activeEdges)]
    /\ UNCHANGED canvasVars
    /\ UNCHANGED runVars
    /\ UNCHANGED panelVars

NextGraph ==
    \/ CallActiveGraph
    \/ CallActiveGraphAgain
    \/ CallTopoOrder
    \/ CallTopoOrderActive

SpecGraph == InitGraph /\ [][NextGraph]_vars

(***************************************************************************)
(* Properties.                                                             *)
(***************************************************************************)
\* the (source, target) pairs of the edges with both ends in idSet
PairsWithin(idSet, edgeList) ==
    { <<edgeList[i].source, edgeList[i].target>> :
        i \in { j \in 1..Len(edgeList) :
                  edgeList[j].source \in idSet /\ edgeList[j].target \in idSet } }

\* the ids reached from the set S in one or more steps along pairs of E
RECURSIVE ReachedFrom(_, _, _)
ReachedFrom(S, E, acc) ==
    LET step == { p[2] : p \in { q \in E : q[1] \in S } }
    IN  IF step \subseteq acc THEN acc ELSE ReachedFrom(step, E, acc \cup step)

\* some id of idSet lies on a cycle of the edges within idSet (a self-loop is one)
HasCycle(idSet, edgeList) ==
    \E n \in idSet : n \in ReachedFrom({n}, PairsWithin(idSet, edgeList), {})

NoRepeat(seq) == \A i, j \in 1..Len(seq) : i # j => seq[i] # seq[j]

PositionIn(seq, x) == CHOOSE i \in 1..Len(seq) : seq[i] = x

\* every edge has both ends in the node list
NoDanglingEdge(nodeList, edgeList) ==
    \A i \in 1..Len(edgeList) :
        edgeList[i].source \in IdsOf(nodeList) /\ edgeList[i].target \in IdsOf(nodeList)

LastWasTopoOrder == last.op \in {"topoOrder", "topoOrderActive"}

\* C1: when the active subgraph (unique node ids) has no cycle,
\* topoOrder(activeNodes, activeEdges) holds every active node id exactly once
\* and, for every active edge (s,t), s before t.
C1_TopoOrderOfAcyclicActive ==
    (last.op = "topoOrderActive" /\ ~HasCycle(IdsOf(last.nodeList), last.edgeList)) =>
        /\ Len(last.out) = Len(last.nodeList)
        /\ Range(last.out) = IdsOf(last.nodeList)
        /\ NoRepeat(last.out)
        /\ \A i \in 1..Len(last.edgeList) :
              /\ last.edgeList[i].source \in Range(last.out)
              /\ last.edgeList[i].target \in Range(last.out)
              /\ PositionIn(last.out, last.edgeList[i].source)
                   < PositionIn(last.out, last.edgeList[i].target)

\* C1 witness: an acyclic active subgraph of three nodes and three edges was ordered
C1_Witness ==
    /\ last.op = "topoOrderActive"
    /\ ~HasCycle(IdsOf(last.nodeList), last.edgeList)
    /\ Len(last.nodeList) = 3
    /\ Len(last.edgeList) = 3
    /\ Len(nodes) = 3
    /\ last.out # [i \in 1..3 |-> nodes[i].id]

(* The order the specification describes: in-degrees counted over the      *)
(* edges with both ends in the node list; the queue seeded with the        *)
(* zero-in-degree ids in node-list order; the front popped and appended    *)
(* to the result; the edge list walked in its order and, for each edge     *)
(* leaving the popped id, the target's in-degree lowered and the target    *)
(* appended to the queue at the moment it reaches zero.                    *)
KahnInDegree(idSet, edgeList, id) ==
    Cardinality({ i \in 1..Len(edgeList) :
                    /\ edgeList[i].target = id
                    /\ edgeList[i].source \in idSet })

RECURSIVE KahnVisit(_, _, _, _, _, _)
KahnVisit(u, idSet, edgeList, i, q, deg) ==
    IF i > Len(edgeList) THEN [q |-> q, deg |-> deg]
    ELSE IF edgeList[i].source = u /\ edgeList[i].target \in idSet
    THEN LET t == edgeList[i].target
             d == deg[t] - 1
         IN  KahnVisit(u, idSet, edgeList, i + 1,
                       IF d = 0 THEN q \o <<t>> ELSE q,
                       [deg EXCEPT ![t] = d])
    ELSE KahnVisit(u, idSet, edgeList, i + 1, q, deg)

RECURSIVE KahnRun(_, _, _, _, _)
KahnRun(idSet, edgeList, q, result, deg) ==
    IF Len(q) = 0 THEN result
    ELSE LET v == KahnVisit(q[1], idSet, edgeList, 1, SubSeq(q, 2, Len(q)), deg)
         IN  KahnRun(idSet, edgeList, v.q, result \o <<q[1]>>, v.deg)

KahnFIFO(nodeList, edgeList) ==
    LET idSet == IdsOf(nodeList)
        deg   == [id \in idSet |-> KahnInDegree(idSet, edgeList, id)]
        seeds == SelectSeq([i \in 1..Len(nodeList) |-> nodeList[i].id],
                           LAMBDA id : deg[id] = 0)
    IN  KahnRun(idSet, edgeList, seeds, <<>>, deg)

\* C2: for every node list (unique ids) and edge list, topoOrder returns the
\* Kahn FIFO order: queue seeded with the zero-in-degree nodes in node-list
\* order, successors visited in edge-list order and enqueued when their
\* in-degree reaches zero.  (That two calls on the same lists agree is then
\* immediate: the result is a function of the two lists.)
C2_TopoOrderIsKahnFIFO ==
    LastWasTopoOrder => last.out = KahnFIFO(last.nodeList, last.edgeList)

\* C2 witness: a full order of three nodes decided by the tie-break, two
\* successors of one node having been enqueued in edge-list order against
\* node-list order
C2_Witness ==
    /\ last.op = "topoOrder"
    /\ Len(last.out) = 3
    /\ Len(nodes) = 3
    /\ last.out[1] = nodes[1].id
    /\ last.out[2] = nodes[3].id
    /\ Len(edges) = 2

\* C3: for a node list with unique ids, topoOrder's result is strictly shorter
\* than the node list exactly when the edges with both ends in the node list
\* contain a cycle (a self-loop counts); the shorter result repeats no id and,
\* for each such edge (s,t) with t in the result, s is in the result before t.
C3_ShorterIffCycle ==
    LastWasTopoOrder =>
        /\ Len(last.out) <= Len(last.nodeList)
        /\ (Len(last.out) < Len(last.nodeList))
             <=> HasCycle(IdsOf(last.nodeList), last.edgeList)
        /\ Len(last.out) < Len(last.nodeList) =>
              /\ NoRepeat(last.out)
              /\ \A p \in PairsWithin(IdsOf(last.nodeList), last.edgeList) :
                    p[2] \in Range(last.out) =>
                        /\ p[1] \in Range(last.out)
                        /\ PositionIn(last.out, p[1]) < PositionIn(last.out, p[2])

\* C3 witness: a cycle behind an acyclic prefix: two nodes ordered, one left out
C3_Witness ==
    /\ last.op = "topoOrder"
    /\ Len(last.nodeList) = 3
    /\ Len(last.out) = 2
    /\ HasCycle(IdsOf(last.nodeList), last.edgeList)

\* C4: activeGraph returns exactly the nodes that are source or target of at
\* least one edge, in node-list order, and exactly the edges whose two ends
\* are among those nodes; nodes and edges are left as they were.
C4_ActiveGraphContents ==
    last.op = "activeGraph" =>
        /\ last.out.activeNodes =
              SelectSeq(nodes, LAMBDA n :
                  \E i \in 1..Len(edges) : edges[i].source = n.id \/ edges[i].target = n.id)
        /\ last.out.activeEdges =
              SelectSeq(edges, LAMBDA e :
                  /\ \E i \in 1..Len(last.out.activeNodes) : last.out.activeNodes[i].id = e.source
                  /\ \E i \in 1..Len(last.out.activeNodes) : last.out.activeNodes[i].id = e.target)
        /\ nodes = last.nodeList
        /\ edges = last.edgeList

\* C4 witness: a node without incident edge and a dangling edge were both left out
C4_Witness ==
    /\ last.op = "activeGraph"
    /\ Len(nodes) = 2
    /\ Len(last.out.activeNodes) = 1
    /\ ~NoDanglingEdge(nodes, edges)
    /\ Len(edges) = 3
    /\ Len(last.out.activeEdges) = 1

\* C5 as stated: for every graph, dangling edges included, activeGraph applied
\* to the result of activeGraph returns the same nodes and edges.
C5_IdempotentOnEveryGraph ==
    last.op = "activeGraphAgain" =>
        /\ last.out.activeNodes = last.nodeList
        /\ last.out.activeEdges = last.edgeList

\* C5 amended: activeGraph is idempotent on every graph all of whose edges have
\* both ends in the node list.
C5_IdempotentWithoutDangling ==
    (last.op = "activeGraphAgain" /\ NoDanglingEdge(nodes, edges)) =>
        /\ last.out.activeNodes = last.nodeList
        /\ last.out.activeEdges = last.edgeList

\* C5 witness: a second application on a graph without dangling edge from
\* which the first had removed a node
C5_Witness ==
    /\ last.op = "activeGraphAgain"
    /\ NoDanglingEdge(nodes, edges)
    /\ Len(nodes) = 3
    /\ Len(last.nodeList) = 2
    /\ Len(edges) >= 2
    /\ last.out.activeNodes = last.nodeList

\* an edge of the list has the ordered pair (source, target)
HasPair(edgeList, source, target) ==
    \E i \in 1..Len(edgeList) :
        edgeList[i].source = source /\ edgeList[i].target = target

\* C6: addEdge(source, target) with source = target, or with a source or a
\* target that is not the id of a node, leaves edges, nodes and nextEdgeId
\* as they were.  (addEdge has no throwing path: both guards return.)
C6_InvalidAddEdgeIsNoOp ==
    [][ ( /\ last'.op = "addEdge"
          /\ \/ last'.source = last'.target
             \/ last'.source \notin IdsOf(nodes)
             \/ last'.target \notin IdsOf(nodes) )
        => ( edges' = edges /\ nodes' = nodes /\ nextEdgeId' = nextEdgeId ) ]_vars

\* C6 witness: the connect handles called addEdge with the id of a node that
\* had been deleted after its output handle was clicked, on a canvas with an
\* edge, and no edge was added
C6_Witness ==
    /\ last.op = "addEdge"
    /\ last.source \notin IdsOf(nodes)
    /\ last.target \in IdsOf(nodes)
    /\ last.source # last.target
    /\ ~last.added
    /\ Len(edges) = 1

\* C7: addEdge(A,B) when an edge A->B exists changes nothing, and after any
\* sequence of addEdge, deleteEdgeById, addNode and deleteNode no two edges
\* have the same ordered (source, target) pair.
C7_OneEdgePerOrderedPair ==
    /\ [](\A i, j \in 1..Len(edges) :
            (i # j) => ~(edges[i].source = edges[j].source /\ edges[i].target = edges[j].target))
    /\ [][ (last'.op = "addEdge" /\ HasPair(edges, last'.source, last'.target))
           => ( edges' = edges /\ nodes' = nodes /\ nextEdgeId' = nextEdgeId ) ]_vars

\* C7 witness: addEdge(A,B) was called with A->B present and added nothing,
\* while B->A is present too
C7_Witness ==
    /\ last.op = "addEdge"
    /\ last.existed
    /\ ~last.added
    /\ HasPair(edges, last.source, last.target)
    /\ HasPair(edges, last.target, last.source)
    /\ Len(edges) = 2

\* C8: after deleteNode(id) and the pruning of edges that follows it, no node
\* has that id, no edge has it as source or target and argsText has no entry
\* for it; the other nodes, the edges not touching id and the other argsText
\* entries are as before.
C8_DeleteNodeCascade ==
    [][ last'.op = "deleteNode" =>
          LET id == last'.id IN
          /\ id \notin IdsOf(nodes')
          /\ \A i \in 1..Len(edges') : edges'[i].source # id /\ edges'[i].target # id
          /\ id \notin DOMAIN argsText'
          /\ nodes' = SelectSeq(nodes, LAMBDA n : n.id # id)
          /\ edges' = SelectSeq(edges, LAMBDA e : e.source # id /\ e.target # id)
          /\ DOMAIN argsText' = (DOMAIN argsText) \ {id}
          /\ \A k \in DOMAIN argsText' : argsText'[k] = argsText[k] ]_vars

\* C8 witness: a node with an incident edge was deleted; two nodes and the
\* edge between them are left
C8_Witness ==
    /\ last.op = "deleteNode"
    /\ last.touched
    /\ Len(nodes) = 2
    /\ Len(edges) = 1
    /\ DOMAIN argsText = IdsOf(nodes)

\* the node ids of the loop's opening lines, in log order: the nodes attempted
Attempted(lg) ==
    LET opening == SelectSeq(lg, LAMBDA l : l.text = TextRunning)
    IN  [i \in 1..Len(opening) |-> opening[i].nodeId]

\* the failure lines of the log tagged with id
FailureLines(lg, id) == { i \in 1..Len(lg) : lg[i].nodeId = id /\ ~lg[i].ok }

\* the nodes of the current run whose execution failed (ok:false body,
\* unparsable body, transport exception, or no node left to send)
FailedNodes == { run.done[i].id : i \in { j \in 1..Len(run.done) : run.done[j].failed } }

\* C9: in a pipeline run a node's failure does not stop the run: when the run
\* has ended every node of the execution order has been attempted, in order;
\* lastOutputs has no entry for a failed node; no request sent carries an
\* input keyed by a failed node; and the log holds exactly one failure line
\* tagged with the failed node's id.
C9_FailureIsIsolated ==
    /\ run.pc = "idle" => (Attempted(logs) = run.order /\ ~running)
    /\ run.pc = "awaiting" =>
          (Attempted(logs) = SubSeq(run.order, 1, run.k) /\ running)
    /\ \A f \in FailedNodes :
          /\ f \notin DOMAIN lastOutputs
          /\ \A i \in 1..Len(requests) : f \notin DOMAIN requests[i].inputs
          /\ Cardinality(FailureLines(logs, f)) = 1

\* C9 witness: the run over n1 -> n2 -> n3 has ended; n2 failed on an ok:false
\* response; n3 was then sent with no input and succeeded
C9_Witness ==
    /\ run.pc = "idle"
    /\ run.order = <<"n1", "n2", "n3">>
    /\ run.upstreamOf = [t \in {"n2", "n3"} |-> IF t = "n2" THEN <<"n1">> ELSE <<"n2">>]
    /\ FailedNodes = {"n2"}
    /\ Len(requests) = 3
    /\ requests[3].nodeId = "n3"
    /\ DOMAIN requests[3].inputs = {}
    /\ DOMAIN requests[2].inputs = {"n1"}
    /\ DOMAIN lastOutputs = {"n1", "n3"}
    /\ \E i \in 1..Len(logs) : logs[i] = LogLine("n2", FALSE, "X boom")

\* C10: runPipeline started when no node has an incident edge writes exactly
\* one log line, tagged system, sends no request, leaves lastOutputs empty and
\* ends with running = false.
C10_EmptyRunIsNoOp ==
    ( /\ last.op = "runPipeline"
      /\ \A i \in 1..Len(nodes) : \A j \in 1..Len(edges) :
            edges[j].source # nodes[i].id /\ edges[j].target # nodes[i].id )
    => /\ Len(logs) = 1
       /\ logs[1].nodeId = "system"
       /\ requests = <<>>
       /\ DOMAIN lastOutputs = {}
       /\ ~running
       /\ run.pc = "idle"

\* C10 witness: runPipeline was started on a canvas of two nodes without edges
C10_Witness ==
    /\ last.op = "runPipeline"
    /\ ~last.started
    /\ Len(nodes) = 2
    /\ edges = <<>>
    /\ logs = <<LogLine("system", FALSE, TextNoNodes)>>
    /\ showLogs

\* the positions of the log lines tagged system
SystemLines(lg) == { i \in 1..Len(lg) : lg[i].nodeId = "system" }

\* C11: when the execution order is shorter than the active node count,
\* runPipeline writes exactly one cycle-warning line tagged system, before any
\* node's line, still attempts every node of the partial order and ends with
\* running = false; when the lengths are equal it writes no warning line.
C11_CycleWarning ==
    run.active > 0 =>
       /\ Len(run.order) <= run.active
       /\ Len(run.order) < run.active =>
             /\ Len(logs) >= 1
             /\ logs[1] = LogLine("system", FALSE, TextCycle)
             /\ SystemLines(logs) = {1}
       /\ Len(run.order) = run.active => SystemLines(logs) = {}
       /\ run.pc = "awaiting" => Attempted(logs) = SubSeq(run.order, 1, run.k)
       /\ run.pc = "idle" => (Attempted(logs) = run.order /\ ~running)

\* C11 witness: the run over n1 -> n2, n2 -> n2 has ended; of the two active
\* nodes only n1 was ordered and attempted, after the warning line
C11_Witness ==
    /\ run.pc = "idle"
    /\ run.active = 2
    /\ run.order = <<"n1">>
    /\ Len(logs) >= 3
    /\ logs[1] = LogLine("system", FALSE, TextCycle)
    /\ logs[2] = LogLine("n1", TRUE, TextRunning)
    /\ ~running

\* the node ids of the requests sent, in sending order
RequestIds == [i \in 1..Len(requests) |-> requests[i].nodeId]

\* the turns of the current run that ended after a request had been sent
AnsweredTurns == { i \in 1..Len(run.done) : run.done[i].sent }

\* the requests of the current run still without response or failure
Outstanding == Len(requests) - Cardinality(AnsweredTurns)

\* a sequence with every block of equal neighbours reduced to one element
RECURSIVE Collapse(_)
Collapse(seq) ==
    IF Len(seq) <= 1 THEN seq
    ELSE LET rest == Collapse(Tail(seq))
         IN  IF Head(seq) = Head(rest) THEN rest ELSE <<Head(seq)>> \o rest

\* the node tags of the log in log order, system lines left out
NodeTags(lg) ==
    LET own == SelectSeq(lg, LAMBDA l : l.nodeId # "system")
    IN  [i \in 1..Len(own) |-> own[i].nodeId]

\* the prefix of the execution order whose turn has begun
TurnsBegun == IF run.pc = "awaiting" THEN SubSeq(run.order, 1, run.k) ELSE run.order

ProperPrefix(seq, longer) ==
    Len(seq) < Len(longer) /\ SubSeq(longer, 1, Len(seq)) = seq

\* C13: with the Run controls disabled while running is true at most one
\* runPipeline invocation is in flight at any time: a run starts only when no
\* earlier invocation is suspended, so every line added to the log after the
\* start of a run is a line of that run, appended for the node at the run's
\* position; running is true exactly while the run has a node left to finish.
C13_OneRunInFlight ==
    [][ /\ last'.op = "runPipeline" => (run.pc = "idle" /\ ~running)
        /\ (last'.op = "runPipeline" /\ last'.started) =>
              (Len(run'.order) > 0 => run'.pc = "awaiting")
        /\ last'.op = "runNodeReturns" =>
              /\ run.pc = "awaiting" /\ running
              /\ run'.order = run.order
              /\ last'.id = run.order[run.k]
              /\ ProperPrefix(logs, logs')
              /\ \A i \in (Len(logs) + 1)..Len(logs') :
                    logs'[i].nodeId \in Range(SubSeq(run.order, run.k, Len(run.order)))
        /\ last'.op \notin {"runPipeline", "runNodeReturns"} => logs' = logs
        /\ running' <=> run'.pc = "awaiting" ]_vars

\* C13 witness: a run of three nodes is suspended on its second node, running
\* is true and runPipeline cannot be started
C13_Witness ==
    /\ running
    /\ run.pc = "awaiting"
    /\ Len(run.order) = 3
    /\ run.k = 2
    /\ ~ENABLED RunPipeline

(***************************************************************************)
(* Schedule manager: the schedule modal and the schedule list.             *)
(***************************************************************************)
\* most calls of the schedule manager suspended at one time
MaxCalls == 2

\* Number(v) of what a number input holds: Number(null) is 0   (l. 640-642)
NumberOf(v) == IF v = EMPTY THEN 0 ELSE v.n

\* x || 0: x when x is truthy, that is a number other than 0   (l. 640-642)
OrZero(x) == IF x # 0 THEN x ELSE 0

\* String.prototype.trim on a text   (l. 647)
RECURSIVE TrimStart(_)
TrimStart(t) == IF Len(t) > 0 /\ Head(t) = " " THEN TrimStart(Tail(t)) ELSE t

RECURSIVE TrimEnd(_)
TrimEnd(t) ==
    IF Len(t) > 0 /\ t[Len(t)] = " " THEN TrimEnd(SubSeq(t, 1, Len(t) - 1)) ELSE t

NoTrim(t) == t

Trim(t) == TrimEnd(TrimStart(t))

\* new Date(local).toISOString() with the browser's zone at offset 0   (l. 638)
ToISOString(local) == local \o ":00.000Z"

graphSnapshotAllNodes(nodeList, edgeList) ==
    [nodes |-> [i \in 1..Len(nodeList) |->
                  [id |-> nodeList[i].id, type |-> nodeList[i].type,
                   args |-> nodeList[i].args]],
     edges |-> [i \in 1..Len(edgeList) |->
                  [source |-> edgeList[i].source, target |-> edgeList[i].target]]]

\* function graphSnapshot()   (l. 623-628)
graphSnapshot(nodeList, edgeList) ==
    LET ag == activeGraph(nodeList, edgeList)
    IN  [nodes |-> [i \in 1..Len(ag.activeNodes) |->
                      [id |-> ag.activeNodes[i].id, type |-> ag.activeNodes[i].type,
                       args |-> ag.activeNodes[i].args]],
         edges |-> [i \in 1..Len(ag.activeEdges) |->
                      [source |-> ag.activeEdges[i].source,
                       target |-> ag.activeEdges[i].target]]]

\* !(!(payload.hours || payload.minutes || payload.seconds))   (l. 643)
IntervalAccepted(hours, minutes, seconds) == hours # 0 \/ minutes # 0 \/ seconds # 0

\* the texts createPipelineSchedule writes to scheduleError
TextEmptyGraph == "Nothing to schedule (empty graph)."
TextPickDate   == "Please pick a date & time."
TextInterval   == "Interval must be > 0."
TextCron       == "Cron expression is required."
TextFailed     == "Failed to create schedule"

\* the validation of createPipelineSchedule: the message it stops with, or ""
\* when it goes on to submit   (l. 631-649)
ValidationError(g, mode, dateTime, hours, minutes, seconds, cron) ==
    IF Len(g.nodes) = 0 THEN TextEmptyGraph
    ELSE IF mode = "once"
         THEN (IF dateTime = "" THEN TextPickDate ELSE "")
    ELSE IF mode = "interval"
         THEN (IF IntervalAccepted(OrZero(NumberOf(hours)), OrZero(NumberOf(minutes)),
                                   OrZero(NumberOf(seconds)))
               THEN "" ELSE TextInterval)
    ELSE (IF Trim(cron) = <<>> THEN TextCron ELSE "")

\* the payload of POST /pipeline/schedules   (l. 634-648)
Payload(g, mode, dateTime, hours, minutes, seconds, cron) ==
    IF mode = "once"
    THEN [mode |-> mode, graph |-> g, run_at |-> ToISOString(dateTime)]
    ELSE IF mode = "interval"
    THEN [mode |-> mode, graph |-> g, hours |-> OrZero(NumberOf(hours)),
          minutes |-> OrZero(NumberOf(minutes)), seconds |-> OrZero(NumberOf(seconds))]
    ELSE [mode |-> mode, graph |-> g, cron |-> Trim(cron)]

\* what the user can put into the fields of the modal
ModeInputs     == {"once", "interval", "cron"}
DateTimeInputs == {"", "2026-01-01T10:00"}
HoursInputs    == {Num(0), Num(1), Num(-1), EMPTY}
MinutesInputs  == {Num(0), Num(-1)}
SecondsInputs  == {Num(0), EMPTY}
CronInputs     == {DefaultCron, <<>>, <<" ", " ">>, <<" ", "@daily", " ">>}

\* the lists GET /pipeline/schedules may answer with
ServerLists == {<<>>, <<[id |-> "j1"]>>}

(* What one fetch of the schedule manager can come back with: the fetch     *)
(* rejects (throw); a response that is not ok; an ok response whose body    *)
(* json() rejects; an ok response with a parsed body (list, where a list    *)
(* is asked for).                                                           *)
FetchOutcomes ==
    { [kind |-> "throw",    ok |-> FALSE, parses |-> FALSE, list |-> <<>>],
      [kind |-> "response", ok |-> FALSE, parses |-> TRUE,  list |-> <<>>],
      [kind |-> "response", ok |-> TRUE,  parses |-> FALSE, list |-> <<>>] }
    \cup { [kind |-> "response", ok |-> TRUE, parses |-> TRUE, list |-> l] : l \in ServerLists }

Succeeded(outcome) == outcome.kind = "response" /\ outcome.ok /\ outcome.parses

SwallowNothing(outcome) == outcome

\* fetch(...).catch(()=>{}): a rejection becomes a resolved undefined   (l. 681-693)
Swallow(outcome) ==
    IF outcome.kind = "throw"
    THEN [kind |-> "undefined", ok |-> FALSE, parses |-> FALSE, list |-> <<>>]
    ELSE outcome

\* the calls of cs that await the answer to a request for the list
AwaitingList(cs) == {k \in 1..Len(cs) : cs[k].pc \in {"list", "fallback"}}

\* the same after call i of the schedule manager was resumed by outcome and
\* issued the requests of issued, where left are the calls still suspended
\* after the step and ended says that call i has returned; once no call
\* awaits a list no response can arrive out of order and the record is dropped
ListRequestAfter(newest, i, issued, ended, left, outcome) ==
    IF issued # <<>> /\ issued[1].method = "GET"
    THEN ListAsked(i)
    ELSE IF AwaitingList(left) = {}
    THEN NoListAsked
    ELSE IF newest.at = i
    THEN [at |-> 0, shown |-> Succeeded(outcome),
          list |-> IF Succeeded(outcome) THEN outcome.list ELSE <<>>]
    ELSE IF ended /\ newest.at > i
    THEN [newest EXCEPT !.at = @ - 1]
    ELSE newest

GetList     == [method |-> "GET", url |-> "/pipeline/schedules"]
GetFallback == [method |-> "GET", url |-> "/schedules"]

RemoveAt(seq, i) == SubSeq(seq, 1, i - 1) \o SubSeq(seq, i + 1, Len(seq))

\* function openPipelineSchedule()   (l. 609-621, button l. 982)
OpenPipelineSchedule ==
    /\ IF Len(activeGraph(nodes, edges).activeNodes) = 0
       THEN /\ UNCHANGED <<showPipelineScheduleModal, formVars, scheduleError>>
            /\ last' = [op |-> "openPipelineSchedule", opened |-> FALSE]
       ELSE /\ showPipelineScheduleModal' = TRUE
            /\ scheduleMode' = "once"
            /\ scheduleLocalDateTime' = ""
            /\ scheduleHours' = Num(0)
            /\ scheduleMinutes' = Num(0)
            /\ scheduleSeconds' = Num(0)
            /\ scheduleCron' = DefaultCron
            /\ scheduleError' = ""
            /\ last' = [op |-> "openPipelineSchedule", opened |-> TRUE]
    /\ UNCHANGED <<scheduleSubmitting, schedules, calls>>
    /\ UNCHANGED <<canvasVars, runVars, monitorVars>>

\* the modal's backdrop and its Cancel button   (l. 1272, 1320)
CloseScheduleModal ==
    /\ showPipelineScheduleModal
    /\ showPipelineScheduleModal' = FALSE
    /\ last' = [op |-> "closeScheduleModal"]
    /\ UNCHANGED <<formVars, scheduleSubmitting, scheduleError, schedules, calls>>
    /\ UNCHANGED <<canvasVars, runVars, monitorVars>>

\* <select bind:value={scheduleMode}>   (l. 1281)
SetScheduleMode(mode) ==
    /\ showPipelineScheduleModal
    /\ scheduleMode' = mode
    /\ last' = [op |-> "setScheduleMode"]
    /\ UNCHANGED <<scheduleLocalDateTime, scheduleHours, scheduleMinutes, scheduleSeconds,
                   scheduleCron>>
    /\ UNCHANGED <<showPipelineScheduleModal, scheduleSubmitting, scheduleError, schedules,
                   calls>>
    /\ UNCHANGED <<canvasVars, runVars, monitorVars>>

\* <input type="datetime-local" bind:value={scheduleLocalDateTime}>   (l. 1291)
SetScheduleLocalDateTime(dateTime) ==
    /\ showPipelineScheduleModal /\ scheduleMode = "once"
    /\ scheduleLocalDateTime' = dateTime
    /\ last' = [op |-> "setScheduleLocalDateTime"]
    /\ UNCHANGED <<scheduleMode, scheduleHours, scheduleMinutes, scheduleSeconds, scheduleCron>>
    /\ UNCHANGED <<showPipelineScheduleModal, scheduleSubmitting, scheduleError, schedules,
                   calls>>
    /\ UNCHANGED <<canvasVars, runVars, monitorVars>>

\* <input type="number" min="0" bind:value={scheduleHours}>   (l. 1298)
SetScheduleHours(value) ==
    /\ showPipelineScheduleModal /\ scheduleMode = "interval"
    /\ scheduleHours' = value
    /\ last' = [op |-> "setScheduleHours"]
    /\ UNCHANGED <<scheduleMode, scheduleLocalDateTime, scheduleMinutes, scheduleSeconds, scheduleCron>>
    /\ UNCHANGED <<showPipelineScheduleModal, scheduleSubmitting, scheduleError, schedules,
                   calls>>
    /\ UNCHANGED <<canvasVars, runVars, monitorVars>>

\* <input type="number" min="0" bind:value={scheduleMinutes}>   (l. 1299)
SetScheduleMinutes(value) ==
    /\ showPipelineScheduleModal /\ scheduleMode = "interval"
    /\ scheduleMinutes' = value
    /\ last' = [op |-> "setScheduleMinutes"]
    /\ UNCHANGED <<scheduleMode, scheduleLocalDateTime, scheduleHours, scheduleSeconds, scheduleCron>>
    /\ UNCHANGED <<showPipelineScheduleModal, scheduleSubmitting, scheduleError, schedules,
                   calls>>
    /\ UNCHANGED <<canvasVars, runVars, monitorVars>>

\* <input type="number" min="0" bind:value={scheduleSeconds}>   (l. 1300)
SetScheduleSeconds(value) ==
    /\ showPipelineScheduleModal /\ scheduleMode = "interval"
    /\ scheduleSeconds' = value
    /\ last' = [op |-> "setScheduleSeconds"]
    /\ UNCHANGED <<scheduleMode, scheduleLocalDateTime, scheduleHours, scheduleMinutes, scheduleCron>>
    /\ UNCHANGED <<showPipelineScheduleModal, scheduleSubmitting, scheduleError, schedules,
                   calls>>
    /\ UNCHANGED <<canvasVars, runVars, monitorVars>>

\* <input type="text" bind:value={scheduleCron}>   (l. 1307)
SetScheduleCron(cron) ==
    /\ showPipelineScheduleModal /\ scheduleMode = "cron"
    /\ scheduleCron' = cron
    /\ last' = [op |-> "setScheduleCron"]
    /\ UNCHANGED <<scheduleMode, scheduleLocalDateTime, scheduleHours, scheduleMinutes,
                   scheduleSeconds>>
    /\ UNCHANGED <<showPipelineScheduleModal, scheduleSubmitting, scheduleError, schedules,
                   calls>>
    /\ UNCHANGED <<canvasVars, runVars, monitorVars>>

SubmittingBeforeValidation(error) == TRUE

\* scheduleSubmitting = true is reached only past every validation return   (l. 651)
SubmittingAfter(error) == error = ""

\* async function createPipelineSchedule(), up to its first await or its
\* return; the Create button is disabled while scheduleSubmitting   (l. 630-656, 1321)
CreatePipelineSchedule ==
    /\ showPipelineScheduleModal
    /\ ~scheduleSubmitting
    /\ Len(calls) < MaxCalls
    /\ LET g     == graphSnapshot(nodes, edges)
           error == ValidationError(g, scheduleMode, scheduleLocalDateTime, scheduleHours,
                                    scheduleMinutes, scheduleSeconds, scheduleCron)
       IN  IF error # ""
           THEN /\ scheduleError' = error
                /\ scheduleSubmitting' = SubmittingAfter(error)
                /\ UNCHANGED calls
                /\ last' = [op |-> "createPipelineSchedule", sent |-> FALSE, issued |-> <<>>]
           ELSE /\ scheduleError' = ""
                /\ scheduleSubmitting' = SubmittingAfter(error)
                /\ calls' = Append(calls, [op |-> "create", job |-> NULL, pc |-> "op"])
                /\ last' = [op |-> "createPipelineSchedule", sent |-> TRUE,
                            issued |-> << [method |-> "POST", url |-> "/pipeline/schedules",
                                           body |-> Payload(g, scheduleMode,
                                               scheduleLocalDateTime, scheduleHours,
                                               scheduleMinutes, scheduleSeconds,
                                               scheduleCron)] >>]
    /\ UNCHANGED <<showPipelineScheduleModal, formVars, schedules>>
    /\ UNCHANGED <<canvasVars, runVars, monitorVars>>

\* async function refreshSchedules(), up to its first await   (l. 669-671, button l. 1077)
RefreshSchedules ==
    /\ Len(calls) < MaxCalls
    /\ calls' = Append(calls, [op |-> "refresh", job |-> NULL, pc |-> "list"])
    /\ newestList' = ListAsked(Len(calls) + 1)
    /\ last' = [op |-> "refreshSchedules", issued |-> <<GetList>>]
    /\ UNCHANGED <<showPipelineScheduleModal, formVars, scheduleSubmitting, scheduleError,
                   schedules>>
    /\ UNCHANGED <<editorVars, toolVars, runVars, monitorVars>>

\* a call of deleteSchedule, pauseSchedule, resumeSchedule or runNow for a job
\* of the list, up to its first await   (l. 680-694)
JobOps == {"delete", "pause", "resume", "runNow"}

JobRequest(jobOp, job) ==
    IF jobOp = "delete" THEN [method |-> "DELETE", url |-> "/pipeline/schedules/" \o job]
    ELSE IF jobOp = "pause"
    THEN [method |-> "POST", url |-> "/pipeline/schedules/" \o job \o "/pause"]
    ELSE IF jobOp = "resume"
    THEN [method |-> "POST", url |-> "/pipeline/schedules/" \o job \o "/resume"]
    ELSE [method |-> "POST", url |-> "/pipeline/schedules/" \o job \o "/run-now"]

JobOperation(jobOp, job) ==
    /\ \E i \in 1..Len(schedules) : schedules[i].id = job
    /\ Len(calls) < MaxCalls
    /\ calls' = Append(calls, [op |-> jobOp, job |-> job, pc |-> "op"])
    /\ last' = [op |-> "jobOperation", call |-> jobOp, issued |-> <<JobRequest(jobOp, job)>>]
    /\ UNCHANGED <<showPipelineScheduleModal, formVars, scheduleSubmitting, scheduleError,
                   schedules>>
    /\ UNCHANGED <<canvasVars, runVars, monitorVars>>

\* a suspended call of the schedule manager resumed by the outcome of the
\* fetch it awaits, up to its next await or its end   (l. 652-666, 669-694)
ScheduleCallReturns(i, outcome) ==
    /\ i \in 1..Len(calls)
    /\ LET c      == calls[i]
           ended  == RemoveAt(calls, i)
           step(failed, raised, issued) ==
               [op |-> "scheduleCallReturns", call |-> c.op, pc |-> c.pc,
                outcome |-> outcome, failed |-> failed, raised |-> raised,
                issued |-> issued]
           finish == /\ calls' = ended
                     /\ scheduleSubmitting' =
                           (IF c.op = "create" THEN FALSE ELSE scheduleSubmitting)
       IN  IF c.pc = "op" /\ c.op = "create"
           THEN IF Succeeded(outcome)
                THEN /\ showPipelineScheduleModal' = FALSE
                     /\ calls' = [calls EXCEPT ![i].pc = "list"]
                     /\ UNCHANGED <<scheduleSubmitting, scheduleError, schedules>>
                     /\ last' = step(FALSE, FALSE, <<GetList>>)
                ELSE /\ scheduleError' = TextFailed
                     /\ scheduleSubmitting' = FALSE
                     /\ calls' = ended
                     /\ UNCHANGED <<showPipelineScheduleModal, schedules>>
                     /\ last' = step(TRUE, FALSE, <<>>)
           ELSE IF c.pc = "op"
           THEN LET o      == Swallow(outcome)
                    raised == o.kind = "throw"
                    failed == ~(outcome.kind = "response" /\ outcome.ok)
                IN  /\ IF raised \/ c.op = "runNow"
                       THEN /\ calls' = ended
                            /\ last' = step(failed, raised, <<>>)
                       ELSE /\ calls' = [calls EXCEPT ![i].pc = "list"]
                            /\ last' = step(failed, raised, <<GetList>>)
                    /\ UNCHANGED <<showPipelineScheduleModal, scheduleSubmitting,
                                   scheduleError, schedules>>
           ELSE IF c.pc = "list"
           THEN IF Succeeded(outcome)
                THEN /\ schedules' = outcome.list
                     /\ finish
                     /\ UNCHANGED <<showPipelineScheduleModal, scheduleError>>
                     /\ last' = step(FALSE, FALSE, <<>>)
                ELSE /\ calls' = [calls EXCEPT ![i].pc = "fallback"]
                     /\ UNCHANGED <<showPipelineScheduleModal, scheduleSubmitting,
                                    scheduleError, schedules>>
                     /\ last' = step(TRUE, FALSE, <<GetFallback>>)
           ELSE /\ schedules' = (IF Succeeded(outcome) THEN outcome.list ELSE schedules)
                /\ finish
                /\ UNCHANGED <<showPipelineScheduleModal, scheduleError>>
                /\ last' = step(~Succeeded(outcome), FALSE, <<>>)
    /\ newestList' = ListRequestAfter(newestList, i, last'.issued, Len(calls') < Len(calls),
                                      calls', outcome)
    /\ UNCHANGED formVars
    /\ UNCHANGED <<editorVars, toolVars, runVars, monitorVars>>

(***************************************************************************)
(* The schedule modal over a live canvas: three nodes, n1 -> n2 and the    *)
(* orphan n3, edited by deleteNode while the modal is open or closed.      *)
(***************************************************************************)
ScheduleCanvasEdges == <<[id |-> "e1", source |-> "n1", target |-> "n2"]>>

InitSchedule ==
    /\ nodes = NodeListOf(CanvasNodeIds)
    /\ edges = ScheduleCanvasEdges
    /\ nextNodeIndex = Cardinality(CanvasNodeIds) + 1
    /\ nextEdgeId = Len(edges) + 1
    /\ pendingSource = NULL
    /\ argsText = InitArgsText(nodes, [id \in {} |-> ""])
    /\ overlayLayers = NoLayers
    /\ InitMap
    /\ newestList = NoListAsked
    /\ logs = <<>>
    /\ running = FALSE
    /\ lastOutputs = [id \in {} |-> UNDEFINED]
    /\ showLogs = FALSE
    /\ run = [pc |-> "idle", order |-> <<>>, k |-> 1, active |-> 0,
              upstreamOf |-> [t \in {} |-> <<>>], done |-> <<>>]
    /\ requests = <<>>
    /\ InitSchedulePanel
    /\ InitRunMonitor
    /\ last = [op |-> "init"]

NextSchedule ==
    \/ OpenPipelineSchedule
    \/ CloseScheduleModal
    \/ \E mode \in ModeInputs : SetScheduleMode(mode)
    \/ \E dateTime \in DateTimeInputs : SetScheduleLocalDateTime(dateTime)
    \/ \E value \in HoursInputs : SetScheduleHours(value)
    \/ \E value \in MinutesInputs : SetScheduleMinutes(value)
    \/ \E value \in SecondsInputs : SetScheduleSeconds(value)
    \/ \E cron \in CronInputs : SetScheduleCron(cron)
    \/ CreatePipelineSchedule
    \/ \E i \in 1..MaxCalls : \E outcome \in FetchOutcomes : ScheduleCallReturns(i, outcome)
    \/ \E id \in CanvasNodeIds : DeleteNode(id)

SpecSchedule == InitSchedule /\ [][NextSchedule]_vars

\* a number input holding a positive number
IsPositive(value) == value # EMPTY /\ value.n > 0

\* C14: createPipelineSchedule in interval mode is accepted only when at least
\* one of hours, minutes, seconds is a positive number: for every triple
\* without a positive component (all zero, or zeros mixed with negative or
\* empty values) it sets a validation message and sends no request.
C14_IntervalNeedsPositive ==
    [][ ( /\ last'.op = "createPipelineSchedule"
          /\ scheduleMode = "interval"
          /\ ~IsPositive(scheduleHours)
          /\ ~IsPositive(scheduleMinutes)
          /\ ~IsPositive(scheduleSeconds) )
        => ( /\ ~last'.sent
             /\ last'.issued = <<>>
             /\ scheduleError' # ""
             /\ calls' = calls ) ]_vars

\* no node of the canvas has an incident edge
NoNodeConnected ==
    \A i \in 1..Len(nodes) : \A j \in 1..Len(edges) :
        edges[j].source # nodes[i].id /\ edges[j].target # nodes[i].id

\* a text of white space only
IsBlank(t) == \A i \in 1..Len(t) : t[i] = " "

\* C15: a createPipelineSchedule call that fails local validation (mode once
\* with no date-time, mode cron with an expression that is empty after
\* trimming, or an empty active subgraph) sends no request, sets a non-empty
\* error message, never sets the submitting flag, and leaves the schedule
\* list and the modal's open state unchanged.
C15_ValidationFailure ==
    [][ ( /\ last'.op = "createPipelineSchedule"
          /\ \/ NoNodeConnected
             \/ scheduleMode = "once" /\ scheduleLocalDateTime = ""
             \/ scheduleMode = "cron" /\ IsBlank(scheduleCron) )
        => ( /\ ~last'.sent
             /\ last'.issued = <<>>
             /\ calls' = calls
             /\ scheduleError' # ""
             /\ ~scheduleSubmitting /\ ~scheduleSubmitting'
             /\ schedules' = schedules
             /\ showPipelineScheduleModal' = showPipelineScheduleModal ) ]_vars

\* C15 witness: Create was pressed in mode cron with a white-space expression
\* on a connected canvas; the cron message is shown and the modal is open
C15_Witness ==
    /\ last.op = "createPipelineSchedule"
    /\ ~last.sent
    /\ scheduleMode = "cron"
    /\ scheduleCron = <<" ", " ">>
    /\ ~NoNodeConnected
    /\ scheduleError = TextCron
    /\ showPipelineScheduleModal
    /\ ~scheduleSubmitting

\* the ids of the canvas nodes that are an endpoint of a canvas edge
ConnectedIds ==
    { nodes[i].id : i \in { k \in 1..Len(nodes) :
          \E j \in 1..Len(edges) : edges[j].source = nodes[k].id \/ edges[j].target = nodes[k].id } }

\* C16: every schedule-creation request carries exactly the active subgraph of
\* the canvas at the moment of submission: the transmitted nodes are the
\* canvas nodes with an incident canvas edge (no orphan), in canvas order with
\* their type and args; the transmitted edges are the canvas edges between
\* them; and no request is sent with an empty node list, also when the canvas
\* was edited while the modal was open.
C16_RequestCarriesActiveSubgraph ==
    [][ last'.op = "createPipelineSchedule" =>
          /\ NoNodeConnected => ~last'.sent
          /\ last'.sent =>
                /\ Len(last'.issued) = 1
                /\ LET g      == last'.issued[1].body.graph
                       active == SelectSeq(nodes, LAMBDA n : n.id \in ConnectedIds)
                       within == SelectSeq(edges, LAMBDA e :
                                    e.source \in ConnectedIds /\ e.target \in ConnectedIds)
                   IN  /\ Len(g.nodes) > 0
                       /\ Len(g.nodes) = Len(active)
                       /\ \A i \in 1..Len(active) :
                             g.nodes[i] = [id |-> active[i].id, type |-> active[i].type,
                                           args |-> active[i].args]
                       /\ Len(g.edges) = Len(within)
                       /\ \A i \in 1..Len(within) :
                             g.edges[i] = [source |-> within[i].source,
                                           target |-> within[i].target]
                       /\ \A i \in 1..Len(g.edges) :
                             \E a, b \in 1..Len(g.nodes) :
                                g.nodes[a].id = g.edges[i].source
                                /\ g.nodes[b].id = g.edges[i].target ]_vars

\* C16 witness: a schedule was submitted from the canvas n1 -> n2 with the
\* orphan n3; the request carries n1, n2 and the edge
C16_Witness ==
    /\ last.op = "createPipelineSchedule"
    /\ last.sent
    /\ Len(nodes) = 3
    /\ Len(last.issued[1].body.graph.nodes) = 2
    /\ last.issued[1].body.graph.edges = <<[source |-> "n1", target |-> "n2"]>>
    /\ scheduleSubmitting

(***************************************************************************)
(* The schedule list and its job buttons, with the modal open on a filled  *)
(* form: the state after openPipelineSchedule and the user's input, the    *)
(* list as the refresh at mount left it.  JobOperation is each of the      *)
(* operations by itself, runNow without the openJobLogs its button adds.   *)
(***************************************************************************)
\* forms that pass validation: <<mode, date-time, hours, cron>>
FilledForms ==
    { <<"once", "2026-01-01T10:00", Num(0), DefaultCron>>,
      <<"interval", "", Num(1), DefaultCron>>,
      <<"cron", "", Num(0), <<" ", "@daily", " ">> >> }

InitJobs ==
    /\ nodes = NodeListOf(CanvasNodeIds)
    /\ edges = ScheduleCanvasEdges
    /\ nextNodeIndex = Cardinality(CanvasNodeIds) + 1
    /\ nextEdgeId = Len(edges) + 1
    /\ pendingSource = NULL
    /\ argsText = InitArgsText(nodes, [id \in {} |-> ""])
    /\ overlayLayers = NoLayers
    /\ InitMap
    /\ newestList = NoListAsked
    /\ logs = <<>>
    /\ running = FALSE
    /\ lastOutputs = [id \in {} |-> UNDEFINED]
    /\ showLogs = FALSE
    /\ run = [pc |-> "idle", order |-> <<>>, k |-> 1, active |-> 0,
              upstreamOf |-> [t \in {} |-> <<>>], done |-> <<>>]
    /\ requests = <<>>
    /\ showPipelineScheduleModal = TRUE
    /\ \E form \in FilledForms :
          /\ scheduleMode = form[1]
          /\ scheduleLocalDateTime = form[2]
          /\ scheduleHours = form[3]
          /\ scheduleCron = form[4]
    /\ scheduleMinutes = Num(0)
    /\ scheduleSeconds = Num(0)
    /\ scheduleSubmitting = FALSE
    /\ scheduleError = ""
    /\ schedules \in ServerLists
    /\ calls = <<>>
    /\ InitRunMonitor
    /\ last = [op |-> "init"]

NextJobs ==
    \/ OpenPipelineSchedule
    \/ CloseScheduleModal
    \/ CreatePipelineSchedule
    \/ RefreshSchedules
    \/ \E jobOp \in JobOps : \E job \in JobIds : JobOperation(jobOp, job)
    \/ \E i \in 1..MaxCalls : \E outcome \in FetchOutcomes : ScheduleCallReturns(i, outcome)

SpecJobs == InitJobs /\ [][NextJobs]_vars

\* the fetch rejected, or its response has a status outside 2xx
RequestFailed(outcome) == outcome.kind = "throw" \/ ~outcome.ok

\* C17: a schedule-creation request that fails (transport failure or non-2xx
\* response) sets a non-empty error message, leaves the modal as it is (open),
\* issues no refresh of the schedule list and resets the submitting flag; no
\* step of a delete, pause, resume or run-now call raises out of the
\* operation or changes the error message, whatever its request came back with.
C17_FailedRequests ==
    [][ last'.op = "scheduleCallReturns" =>
          /\ ( last'.call = "create" /\ last'.pc = "op" /\ RequestFailed(last'.outcome) ) =>
                /\ scheduleError' # ""
                /\ showPipelineScheduleModal' = showPipelineScheduleModal
                /\ last'.issued = <<>>
                /\ Len(calls') = Len(calls) - 1
                /\ schedules' = schedules
                /\ scheduleSubmitting /\ ~scheduleSubmitting'
          /\ last'.call \in JobOps =>
                /\ ~last'.raised
                /\ scheduleError' = scheduleError
                /\ showPipelineScheduleModal' = showPipelineScheduleModal
                /\ scheduleSubmitting' = scheduleSubmitting ]_vars

\* C17 witness: the POST of a schedule came back with a non-2xx status: the
\* modal is open with the failure message, nothing is in flight
C17_Witness ==
    /\ last.op = "scheduleCallReturns"
    /\ last.call = "create"
    /\ last.outcome.kind = "response" /\ ~last.outcome.ok
    /\ showPipelineScheduleModal
    /\ scheduleError = TextFailed
    /\ ~scheduleSubmitting
    /\ calls = <<>>

\* C17 second witness state: the DELETE of a job was rejected by the network
\* and the call went on to refresh the list
C17_WitnessJobFailure ==
    /\ last.op = "scheduleCallReturns"
    /\ last.call = "delete"
    /\ last.outcome.kind = "throw"
    /\ last.issued = <<GetList>>
    /\ scheduleError = ""

(***************************************************************************)
(* Run monitor: openJobLogs, pollLatestRun and the interval timer.         *)
(* runPollTimer holds the job whose pollLatestRun the stored interval      *)
(* calls, or null: every timer created is stored in runPollTimer and the   *)
(* one stored is cleared before it is replaced or set to null, so no       *)
(* interval runs besides the stored one.                                   *)
(***************************************************************************)
\* most pollLatestRun calls suspended at one time
MaxPolls == 2

\* the status of a job's latest run on the server; none: the job has no run
RunStatuses == {"none", "running", "success", "error"}

\* det.logs of the latest run of a job
RunLogsOf(job, status) ==
    IF status = "error" THEN <<job \o " started", job \o " exception">>
    ELSE <<job \o " started">>

\* !/X|exception/i.test(line)   (l. 561)
LineOk(line) == line \notin {job \o " exception" : job \in JobIds}

\* det.status === 'running' ? 'run' : (det.status === 'success' ? 'ok' : 'err')   (l. 560)
StatusTag(status) ==
    IF status = "running" THEN "run" ELSE IF status = "success" THEN "ok" ELSE "err"

\* logs = det.logs.map(line => ({ nodeId, ok, text: line }))   (l. 559-563)
RunLogLines(job, status) ==
    LET lines == RunLogsOf(job, status)
    IN  [i \in 1..Len(lines) |-> LogLine(StatusTag(status), LineOk(lines[i]), lines[i])]

ListNeverEmpty(status) == FALSE

\* if (!Array.isArray(list) || list.length === 0): a job without a run   (l. 551)
ListIsEmpty(status) == status = "none"

TextNoRuns     == "(no runs yet)"
TextPollFailed == "Failed to fetch run logs"

FailureViewAppended(lg) == Append(lg, LogLine("system", FALSE, TextPollFailed))

\* catch (e) { logs = [{ nodeId: 'system', ok: false, text: 'Failed to fetch run logs' }] }
\* (l. 569-571)
FailureView(lg) == <<LogLine("system", FALSE, TextPollFailed)>>

\* if (det.status !== 'running' && runPollTimer) { clearInterval; runPollTimer = null }
\* (l. 565-568): the stored timer, whatever job it polls
StopIfNotRunning(timer, status) ==
    IF status # "running" /\ timer # NULL THEN NULL ELSE timer

TimerKeptWhenClosed(shown, timer) == timer

\* $: if (!showLogs && runPollTimer) { clearInterval(runPollTimer); runPollTimer = null; }
\* (l. 573)
StopIfClosed(shown, timer) == IF ~shown /\ timer # NULL THEN NULL ELSE timer

\* async function openJobLogs(jobId), up to its await: the drawer is opened,
\* the log view emptied, pollLatestRun(jobId) called   (l. 540-543, button l. 1101)
OpenJobLogs(job) ==
    /\ ~destroyed
    /\ \E i \in 1..Len(schedules) : schedules[i].id = job
    /\ Len(polls) < MaxPolls
    /\ showLogs' = TRUE
    /\ logs' = <<>>
    /\ polls' = Append(polls, [job |-> job, pc |-> "list", from |-> "open"])
    /\ runPollTimer' = StopIfClosed(TRUE, runPollTimer)
    /\ watch' = [job |-> job, established |-> FALSE, sawTerminal |-> FALSE]
    /\ last' = [op |-> "openJobLogs", job |-> job,
                issued |-> <<"/pipeline/schedules/" \o job \o "/runs">>]
    /\ UNCHANGED <<running, lastOutputs, run, requests, latestRun, destroyed>>
    /\ UNCHANGED <<canvasVars, schedVars>>

\* the callback of setInterval(() => pollLatestRun(jobId), 1000)   (l. 545)
TimerFires ==
    /\ runPollTimer \in JobIds
    /\ Len(polls) < MaxPolls
    /\ polls' = Append(polls, [job |-> runPollTimer, pc |-> "list", from |-> "tick"])
    /\ last' = [op |-> "timerFires", job |-> runPollTimer,
                issued |-> <<"/pipeline/schedules/" \o runPollTimer \o "/runs">>]
    /\ UNCHANGED <<runPollTimer, latestRun, destroyed, watch>>
    /\ UNCHANGED <<canvasVars, runVars, schedVars>>

(* pollLatestRun resumed by the outcome of the fetch it awaits (answered:   *)
(* the fetch and r.json() resolved), up to its next await or its end; when  *)
(* the call came from openJobLogs, openJobLogs goes on in the same task and *)
(* stores a new interval; the reactive block runs last.   (l. 544-545,      *)
(* 548-570, 573)                                                           *)
PollReturns(i, answered) ==
    /\ i \in 1..Len(polls)
    /\ LET p       == polls[i]
           status  == latestRun[p.job]
           toDetail == answered /\ p.pc = "list" /\ ~ListIsEmpty(status)
           read    == answered /\ p.pc = "detail"
           stopped == IF read THEN StopIfNotRunning(runPollTimer, status)
                      ELSE runPollTimer
           stored  == IF ~toDetail /\ p.from = "open" THEN p.job ELSE stopped
       IN  /\ logs' = IF ~answered THEN FailureView(logs)
                      ELSE IF toDetail THEN logs
                      ELSE IF p.pc = "list" THEN <<LogLine("system", TRUE, TextNoRuns)>>
                      ELSE RunLogLines(p.job, status)
           /\ polls' = IF toDetail THEN [polls EXCEPT ![i].pc = "detail"]
                       ELSE RemoveAt(polls, i)
           /\ runPollTimer' = IF destroyed THEN stored ELSE StopIfClosed(showLogs, stored)
           /\ watch' = [watch EXCEPT
                 !.established = @ \/ (~toDetail /\ p.from = "open" /\ p.job = watch.job),
                 !.sawTerminal = @ \/ (read /\ p.job = watch.job
                                        /\ status \in {"success", "error"})]
           /\ last' = [op |-> "pollReturns", job |-> p.job, pc |-> p.pc, from |-> p.from,
                       answered |-> answered,
                       issued |-> IF toDetail
                                  THEN <<"/pipeline/schedules/runs/latest-of-" \o p.job>>
                                  ELSE <<>>]
    /\ UNCHANGED <<running, lastOutputs, showLogs, run, requests, latestRun, destroyed>>
    /\ UNCHANGED <<canvasVars, schedVars>>

\* the drawer's Close button: showLogs = false, then the reactive block   (l. 1462, 573)
CloseLogs ==
    /\ ~destroyed
    /\ showLogs
    /\ showLogs' = FALSE
    /\ runPollTimer' = StopIfClosed(FALSE, runPollTimer)
    /\ last' = [op |-> "closeLogs", issued |-> <<>>]
    /\ UNCHANGED <<logs, running, lastOutputs, run, requests, polls, latestRun, destroyed,
                   watch>>
    /\ UNCHANGED <<canvasVars, schedVars>>

\* the Toggle logs button: showLogs = !showLogs, then the reactive block   (l. 988, 573)
ToggleLogs ==
    /\ ~destroyed
    /\ showLogs' = ~showLogs
    /\ runPollTimer' = StopIfClosed(~showLogs, runPollTimer)
    /\ last' = [op |-> "toggleLogs", issued |-> <<>>]
    /\ UNCHANGED <<logs, running, lastOutputs, run, requests, polls, latestRun, destroyed,
                   watch>>
    /\ UNCHANGED <<canvasVars, schedVars>>

\* the server: the latest run of a job ends
RunEnds(job, status) ==
    /\ latestRun[job] = "running"
    /\ latestRun' = [latestRun EXCEPT ![job] = status]
    /\ last' = [op |-> "runEnds", job |-> job, issued |-> <<>>]
    /\ UNCHANGED <<runPollTimer, polls, destroyed, watch>>
    /\ UNCHANGED <<canvasVars, runVars, schedVars>>

\* what runPollTimer holds once the interval it names has been cleared without
\* the variable being reset: a timer id, truthy, that fires no more
STALE == "cleared"

\* onDestroy(() => { if (runPollTimer) clearInterval(runPollTimer); }): the
\* stored interval is cleared, the variable keeps its id; the destroyed
\* component has no buttons and its reactive block runs no more   (l. 576)
Destroy ==
    /\ ~destroyed
    /\ destroyed' = TRUE
    /\ runPollTimer' = IF runPollTimer # NULL THEN STALE ELSE NULL
    /\ last' = [op |-> "destroy", issued |-> <<>>]
    /\ UNCHANGED <<polls, latestRun, watch>>
    /\ UNCHANGED <<canvasVars, runVars, schedVars>>

(***************************************************************************)
(* The run monitor on a list of two jobs, each with no run, a running run  *)
(* or a finished one.                                                      *)
(***************************************************************************)
InitMonitor ==
    /\ nodes = <<>>
    /\ nextNodeIndex = 1
    /\ edges = <<>>
    /\ nextEdgeId = 1
    /\ pendingSource = NULL
    /\ argsText = [id \in {} |-> ""]
    /\ overlayLayers = NoLayers
    /\ InitMap
    /\ newestList = NoListAsked
    /\ logs = <<>>
    /\ running = FALSE
    /\ lastOutputs = [id \in {} |-> UNDEFINED]
    /\ showLogs = FALSE
    /\ run = [pc |-> "idle", order |-> <<>>, k |-> 1, active |-> 0,
              upstreamOf |-> [t \in {} |-> <<>>], done |-> <<>>]
    /\ requests = <<>>
    /\ showPipelineScheduleModal = FALSE
    /\ scheduleMode = "once"
    /\ scheduleLocalDateTime = ""
    /\ scheduleHours = Num(0)
    /\ scheduleMinutes = Num(0)
    /\ scheduleSeconds = Num(0)
    /\ scheduleCron = DefaultCron
    /\ scheduleSubmitting = FALSE
    /\ scheduleError = ""
    /\ schedules = <<[id |-> "j1"], [id |-> "j2"]>>
    /\ calls = <<>>
    /\ runPollTimer = NULL
    /\ polls = <<>>
    /\ latestRun \in [JobIds -> RunStatuses]
    /\ destroyed = FALSE
    /\ watch = [job |-> NULL, established |-> FALSE, sawTerminal |-> FALSE]
    /\ last = [op |-> "init"]

NextMonitor ==
    \/ \E job \in JobIds : OpenJobLogs(job)
    \/ TimerFires
    \/ \E i \in 1..MaxPolls : \E answered \in BOOLEAN : PollReturns(i, answered)
    \/ CloseLogs
    \/ ToggleLogs
    \/ \E job \in JobIds : \E status \in {"success", "error"} : RunEnds(job, status)
    \/ Destroy

SpecMonitor == InitMonitor /\ [][NextMonitor]_vars

\* C18: after openJobLogs(jobId) for a job whose latest run is already in a
\* terminal status (success or error), no further poll request is issued once
\* the first successful fetch has observed that terminal status.
C18_NoPollAfterTerminal ==
    [][ ( /\ watch.sawTerminal
          /\ latestRun[watch.job] \in {"success", "error"}
          /\ last'.op \in {"timerFires", "pollReturns"}
          /\ last'.job = watch.job )
        => last'.issued = <<>> ]_vars

\* the pollLatestRun calls in flight that a timer firing started
TicksInFlight == { i \in 1..Len(polls) : polls[i].from = "tick" }

\* C19: the run monitor never has two poll ticks outstanding at once: a timer
\* firing does not start a second poll while the first still awaits its
\* responses.
C19_OnePollTickInFlight == Cardinality(TicksInFlight) <= 1

\* C20: polling of different jobs is independent: once openJobLogs(B) has
\* replaced a watch on job A, no response to a poll issued for A changes the
\* log view shown for B or clears B's poll timer, and B keeps being polled for
\* as long as B's latest run is running (and the drawer is open).
C20_JobsPolledIndependently ==
    [][ /\ ( /\ watch.established
             /\ last'.op = "pollReturns"
             /\ last'.job # watch.job )
           => ( /\ logs' = logs
                /\ runPollTimer = watch.job => runPollTimer' = watch.job )
        /\ ( /\ watch'.established
             /\ showLogs'
             /\ latestRun'[watch'.job] = "running" )
           => runPollTimer' = watch'.job ]_vars

\* C21: a poll whose fetched run list is empty replaces the log view with
\* exactly one placeholder line tagged system, issues no run-detail request
\* and ends there, without the failure line of the catch.
C21_EmptyRunList ==
    [][ ( /\ last'.op = "pollReturns"
          /\ last'.pc = "list"
          /\ last'.answered
          /\ latestRun[last'.job] = "none" )
        => ( /\ logs' = <<LogLine("system", TRUE, TextNoRuns)>>
             /\ last'.issued = <<>>
             /\ Len(polls') = Len(polls) - 1
             /\ \A i \in 1..Len(polls') : polls'[i].pc # "detail" \/ polls'[i] \in Range(polls) ) ]_vars

\* C21 witness: a timer tick for j1, which has no run, came back with the
\* empty list; the placeholder is shown and the timer is still stored
C21_Witness ==
    /\ last.op = "pollReturns"
    /\ last.from = "tick"
    /\ last.job = "j1"
    /\ last.answered
    /\ latestRun["j1"] = "none"
    /\ logs = <<LogLine("system", TRUE, TextNoRuns)>>
    /\ runPollTimer = "j1"

\* C22: a poll whose run-list or run-detail fetch fails replaces the log view
\* with exactly one failure line tagged system and ends; the stored poll
\* timer is left as it was, so that later ticks are still issued.
C22_FailedFetch ==
    [][ ( /\ last'.op = "pollReturns"
          /\ ~last'.answered )
        => ( /\ logs' = <<LogLine("system", FALSE, TextPollFailed)>>
             /\ last'.issued = <<>>
             /\ Len(polls') = Len(polls) - 1
             /\ runPollTimer # NULL => runPollTimer' # NULL
             /\ last'.from = "tick" => runPollTimer' = runPollTimer ) ]_vars

\* C22 witness: the run-detail fetch of a timer tick for the running job j1
\* failed; the failure line is shown and the timer is still stored
C22_Witness ==
    /\ last.op = "pollReturns"
    /\ last.from = "tick"
    /\ last.pc = "detail"
    /\ ~last.answered
    /\ last.job = "j1"
    /\ latestRun["j1"] = "running"
    /\ logs = <<LogLine("system", FALSE, TextPollFailed)>>
    /\ runPollTimer = "j1"
    /\ showLogs
    /\ ENABLED TimerFires

\* C23: after the log drawer is closed or the component is destroyed, the
\* poll timer is cleared and no new poll tick is started until openJobLogs is
\* called again.
C23_NoTickAfterCloseOrDestroy ==
    [][ /\ (~showLogs \/ destroyed) => last'.op # "timerFires"
        /\ (~showLogs' \/ destroyed') => runPollTimer' \notin JobIds ]_vars

\* C24: an executor response with a non-2xx HTTP status is treated as a
\* failure of that node whatever its body says: the node gets a failure log
\* line as its last line, no entry in lastOutputs, and the run goes on with
\* the next node.
C24_Non2xxIsFailure ==
    [][ ( /\ last'.op = "runNodeReturns"
          /\ last'.http = "5xx" )
        => ( /\ last'.failed
             /\ last'.id \notin DOMAIN lastOutputs'
             /\ Cardinality(FailureLines(logs', last'.id)) = 1
             /\ run.k < Len(run.order) => Attempted(logs')[run.k + 1] = run.order[run.k + 1] ) ]_vars

\* the sources of the edges of edgeList into target
SourcesInto(edgeList, target) ==
    { edgeList[i].source : i \in { j \in 1..Len(edgeList) : edgeList[j].target = target } }

\* the predecessors the current run recorded for a node at its start
RecordedSources(target) ==
    IF target \in DOMAIN run.upstreamOf THEN Range(run.upstreamOf[target]) ELSE {}

\* C25: for every node invoked in a run, the inputs sent to the executor have
\* as keys exactly the sources of the active edges into that node (the edges
\* of the canvas the run started on) that have an entry in lastOutputs at that
\* moment, each mapped to that predecessor's stored output; a predecessor
\* without a stored output contributes no entry, nor does any other node.
C25_InputsAreStoredPredecessorOutputs ==
    [][ /\ ( last'.op = "runPipeline" /\ last'.started ) =>
              \A i \in 1..Len(nodes) :
                 LET t == nodes[i].id
                 IN  (IF t \in DOMAIN run'.upstreamOf THEN Range(run'.upstreamOf[t]) ELSE {})
                        = SourcesInto(edges, t)
        /\ ( last'.op \in {"runPipeline", "runNodeReturns"}
             /\ Len(requests') > (IF last'.op = "runPipeline" THEN 0 ELSE Len(requests)) ) =>
              LET r    == requests'[Len(requests')]
                  prev == IF last'.op = "runPipeline" THEN run' ELSE run
                  into == IF r.nodeId \in DOMAIN prev.upstreamOf
                          THEN Range(prev.upstreamOf[r.nodeId]) ELSE {}
              IN  /\ r.nodeId = run'.order[run'.k]
                  /\ DOMAIN r.inputs = into \cap DOMAIN lastOutputs'
                  /\ \A up \in DOMAIN r.inputs : r.inputs[up] = lastOutputs'[up] ]_vars

\* C25 witness: on n1 -> n3, n2 -> n3 the request for n3 was sent after n1
\* failed and n2 succeeded: its inputs hold n2's output only
C25_Witness ==
    /\ run.order = <<"n1", "n2", "n3">>
    /\ RecordedSources("n3") = {"n1", "n2"}
    /\ Len(requests) = 3
    /\ DOMAIN lastOutputs = {"n2"}
    /\ DOMAIN requests[3].inputs = {"n2"}
    /\ requests[3].inputs["n2"] = lastOutputs["n2"]

\* the nodes whose response in the current run carried ok: true
StoredInRun(done) == { done[i].id : i \in { j \in 1..Len(done) : ~done[j].failed } }

\* the nodes of the current run handled before the request for id was sent
DoneBefore(done, id) ==
    IF \E i \in 1..Len(done) : done[i].id = id
    THEN SubSeq(done, 1, (CHOOSE i \in 1..Len(done) : done[i].id = id) - 1)
    ELSE done

\* what C26 says of a run in progress: lastOutputs is empty when the run
\* starts, holds exactly the nodes answered with ok: true in this run, and
\* every request of the run carries outputs stored in this run only
ScopedWhileRunning ==
    /\ last'.op = "runPipeline" => DOMAIN lastOutputs' = {}
    /\ last'.op = "runNodeReturns" =>
          /\ DOMAIN lastOutputs' = StoredInRun(run'.done)
          /\ \A id \in DOMAIN lastOutputs : lastOutputs'[id] = lastOutputs[id]
    /\ last'.op \in {"runPipeline", "runNodeReturns"} =>
          \A i \in 1..Len(requests') :
             DOMAIN requests'[i].inputs
                \subseteq StoredInRun(DoneBefore(run'.done, requests'[i].nodeId))

\* C26 as stated: lastOutputs is scoped to one run: empty when a run starts,
\* holding entries only for nodes that succeeded in that run, and discarded
\* when the run ends, so that no output of an earlier run is passed as an
\* input in a later run.
C26_DiscardedAtRunEnd ==
    [][ /\ ScopedWhileRunning
        /\ ( last'.op = "runNodeReturns" /\ ~running' ) => DOMAIN lastOutputs' = {} ]_vars

\* C26 (amended): lastOutputs is emptied when a run starts and during the run
\* holds exactly the nodes whose response carried ok: true in that run; it is
\* kept when the run ends, unchanged until the next run starts, and no output
\* of an earlier run is passed as an input in a later run.
C26_EmptiedAtRunStart ==
    [][ /\ ScopedWhileRunning
        /\ ( last'.op = "runNodeReturns" /\ ~running' ) =>
              DOMAIN lastOutputs' = StoredInRun(run'.done)
        /\ last'.op \notin {"runPipeline", "runNodeReturns"} => lastOutputs' = lastOutputs ]_vars

\* C26 witness: a run on n1 -> n2 has ended with n1 answered ok: true and n2
\* failed; the outputs of the run are still stored
C26_Witness ==
    /\ ~running
    /\ run.pc = "idle"
    /\ run.order = <<"n1", "n2">>
    /\ Len(run.done) = 2
    /\ run.done[2].failed
    /\ DOMAIN lastOutputs = {"n1"}
    /\ DOMAIN requests[2].inputs = {"n1"}

\* the node ids the loop of the current run has handled, in order
HandledIds(done) == [i \in 1..Len(done) |-> done[i].id]

\* C27: if every executor request eventually returns a response or fails,
\* every runPipeline invocation eventually sets running back to false, and it
\* does so only after having attempted every node of its execution order,
\* whatever the executor answered (ok: false, unparsable body, exception).
C27_RunEnds ==
    /\ [](running => <>(~running /\ HandledIds(run.done) = run.order))
    /\ [][ (running /\ ~running') =>
              /\ HandledIds(run'.done) = run.order
              /\ Attempted(logs') = run.order ]_vars

\* C27 witness: a run over n1, n2, n3 has ended with running false after a
\* transport exception, an unparsable body and an ok: false response
C27_Witness ==
    /\ ~running
    /\ run.pc = "idle"
    /\ HandledIds(run.done) = <<"n1", "n2", "n3">>
    /\ \A i \in 1..3 : run.done[i].failed /\ run.done[i].sent
    /\ { logs[i].text : i \in FailureLines(logs, "n1") } = {"X Exception: fetch failed"}
    /\ { logs[i].text : i \in FailureLines(logs, "n2") } = {"X Bad JSON"}
    /\ { logs[i].text : i \in FailureLines(logs, "n3") } = {"X boom"}

\* the ids of idSet no pair of E points to
ZeroInDegree(idSet, E) == { n \in idSet : ~ \E p \in E : p[2] = n }

\* the zero-in-degree ids and everything reached from them along pairs of E
ReachableFromZero(idSet, E) ==
    ZeroInDegree(idSet, E) \cup ReachedFrom(ZeroInDegree(idSet, E), E, {})

\* the ids on a cycle of E and everything reached from them
OnOrBehindCycle(idSet, E) ==
    LET cyclic == { n \in idSet : n \in ReachedFrom({n}, E, {}) }
    IN  cyclic \cup ReachedFrom(cyclic, E, {})

\* the ids of the last call's node list that its result leaves out
Omitted == IdsOf(last.nodeList) \ Range(last.out)

\* C28 as stated: when topoOrder returns a partial order, the omitted nodes
\* are exactly the nodes not reachable from any zero-in-degree node.
C28_OmittedIffUnreachable ==
    (LastWasTopoOrder /\ Len(last.out) < Len(last.nodeList)) =>
        Omitted = IdsOf(last.nodeList)
                    \ ReachableFromZero(IdsOf(last.nodeList),
                                        PairsWithin(IdsOf(last.nodeList), last.edgeList))

\* C28 (amended): the nodes topoOrder omits are exactly the nodes on a cycle
\* and the nodes reachable from a node on a cycle; every node of the result is
\* a zero-in-degree node or reachable from one, but a node reachable from a
\* zero-in-degree node is omitted when it is on or behind a cycle.
C28_OmittedIffOnOrBehindCycle ==
    LastWasTopoOrder =>
        LET ids == IdsOf(last.nodeList)
            E   == PairsWithin(ids, last.edgeList)
        IN  /\ Omitted = OnOrBehindCycle(ids, E)
            /\ Range(last.out) \subseteq ReachableFromZero(ids, E)

\* C28 witness: a partial order that leaves out a node reachable from a
\* zero-in-degree node of the result
C28_Witness ==
    /\ LastWasTopoOrder
    /\ 0 < Len(last.out)
    /\ Len(last.out) < Len(last.nodeList)
    /\ Omitted \cap ReachableFromZero(IdsOf(last.nodeList),
                                      PairsWithin(IdsOf(last.nodeList), last.edgeList)) # {}

\* the texts of the lines tagged with id that a step appended to the log
TextsAdded(before, after, id) ==
    LET added == SelectSeq(SubSeq(after, Len(before) + 1, Len(after)),
                           LAMBDA l : l.nodeId = id)
    IN  [i \in 1..Len(added) |-> added[i].text]

NonBlank(lines) == SelectSeq(lines, LAMBDA t : t # "")

\* C29: for a node whose execution succeeds the runner stores its output in
\* lastOutputs and emits, in this order, the log lines and the stdout text
\* returned by the executor, each split on line boundaries with blank lines
\* suppressed, then exactly one final success line as the node's last line;
\* a failed node's last line is exactly one failure line.
C29_LinesThenOneFinalLine ==
    [][ ( last'.op = "runNodeReturns" /\ last'.returned # <<>> ) =>
          LET data  == last'.returned[1]
              id    == last'.id
              texts == TextsAdded(logs, logs', id)
              final == IF data.ok THEN "OK " \o data.output.text ELSE "X " \o data.error
          IN  /\ texts = NonBlank(data.logs) \o NonBlank(data.stdout) \o <<final>>
              /\ Cardinality(FailureLines(logs', id)) = (IF data.ok THEN 0 ELSE 1)
              /\ data.ok => ( id \in DOMAIN lastOutputs' /\ lastOutputs'[id] = data.output ) ]_vars

\* what the runner does with the executor's lines: the entries of logs are
\* emitted one line each as they are, blank ones included; only the lines of
\* stdout are filtered
C29_LogEntriesVerbatim ==
    [][ ( last'.op = "runNodeReturns" /\ last'.returned # <<>> ) =>
          LET data  == last'.returned[1]
              final == IF data.ok THEN "OK " \o data.output.text ELSE "X " \o data.error
          IN  TextsAdded(logs, logs', last'.id)
                 = data.logs \o NonBlank(data.stdout) \o <<final>> ]_vars

(***************************************************************************)
(* Stored workflows and AI suggestions.  loadWorkflow replaces the canvas  *)
(* by the nodes and edges of a stored workflow as the file gives them;     *)
(* applyAISuggestion appends the suggested nodes under fresh ids           *)
(* (`ai_n${nextNodeIndex++}`) and the suggested edges between them         *)
(* (`ai_e${nextEdgeId++}`).                                                *)
(***************************************************************************)
AINodeIdOf(k) == "ai_n" \o ToString(k)
AIEdgeIdOf(k) == "ai_e" \o ToString(k)

\* What GET /workflows/<name> can come back with: a stored workflow as
\* saveWorkflow wrote it (the nodes and edges of a canvas of an earlier
\* session, node ids unique), a body without workflow.nodes, an ok:false
\* body, or a rejected fetch.
StoredWorkflows ==
    { [nodes |-> <<NodeOf("n1"), NodeOf("n2")>>,
       edges |-> <<[id |-> "e1", source |-> "n1", target |-> "n2"]>>],
      [nodes |-> <<NodeOf("n2")>>, edges |-> <<>>],
      [nodes |-> <<NodeOf(AINodeIdOf(1)), NodeOf("n2")>>,
       edges |-> <<[id |-> AIEdgeIdOf(1), source |-> AINodeIdOf(1), target |-> "n2"]>>] }

LoadOutcomes ==
    { [kind |-> "workflow", workflow |-> w] : w \in StoredWorkflows }
        \cup { [kind |-> "malformed"], [kind |-> "notok"], [kind |-> "throw"] }

\* async function loadWorkflow(workflowName), resumed by the outcome of its
\* fetch; nothing is assigned before the awaits   (l. 767-809)
LoadWorkflow(outcome) ==
    /\ LET ns == IF outcome.kind = "workflow" THEN outcome.workflow.nodes
                 ELSE IF outcome.kind = "malformed" THEN <<>> ELSE nodes
           es == IF outcome.kind = "workflow" THEN outcome.workflow.edges
                 ELSE IF outcome.kind = "malformed" THEN <<>> ELSE edges
           at == IF outcome.kind = "workflow"
                 THEN [id \in IdsOf(ns) |-> Stringify(nodeById(ns, id).args)]
                 ELSE IF outcome.kind = "malformed" THEN [id \in {} |-> ""] ELSE argsText
       IN  /\ nodes' = ns
           /\ argsText' = InitArgsText(ns, at)
           /\ edges' = PruneEdges(ns, es)
    /\ last' = [op |-> "loadWorkflow", kind |-> outcome.kind]
    /\ UNCHANGED <<nextNodeIndex, nextEdgeId, pendingSource, overlayLayers>>
    /\ UNCHANGED runVars
    /\ UNCHANGED panelVars

\* The suggestions the AI endpoint may return: suggested nodes [id, type,
\* hasArgs, args] and edges [source, target] over the suggestion's own ids;
\* the last one has no nodes array.
SuggestedNode(id, hasArgs) ==
    [id |-> id, type |-> DefaultType, hasArgs |-> hasArgs, args |-> "{}"]

Suggestions ==
    { [valid |-> TRUE, nodes |-> <<SuggestedNode("a", FALSE)>>, edges |-> <<>>],
      [valid |-> TRUE, nodes |-> <<SuggestedNode("a", TRUE), SuggestedNode("b", FALSE)>>,
       edges |-> <<[source |-> "a", target |-> "b"]>>],
      [valid |-> TRUE, nodes |-> <<SuggestedNode("a", FALSE), SuggestedNode("b", FALSE)>>,
       edges |-> <<[source |-> "a", target |-> "a"], [source |-> "b", target |-> "c"]>>],
      [valid |-> FALSE, nodes |-> <<>>, edges |-> <<>>] }

\* nodeIdMap after the forEach over suggestion.nodes: a later node with the
\* same suggested id overwrites the entry   (l. 908-912)
nodeIdMap(suggested, firstIndex) ==
    [id \in {suggested[i].id : i \in 1..Len(suggested)} |->
        LET i == CHOOSE i \in 1..Len(suggested) :
                    /\ suggested[i].id = id
                    /\ \A j \in 1..Len(suggested) : suggested[j].id = id => j <= i
        IN  AINodeIdOf(firstIndex + i - 1)]

\* the nodes the forEach appends, in order   (l. 910-925)
SuggestedNodes(suggested, firstIndex) ==
    [i \in 1..Len(suggested) |->
        [id |-> AINodeIdOf(firstIndex + i - 1), type |-> suggested[i].type,
         args |-> IF suggested[i].hasArgs THEN suggested[i].args ELSE DefaultArgs]]

\* the suggested edges both of whose ends nodeIdMap knows   (l. 931-936)
MappedEdges(suggestedEdges, map) ==
    SelectSeq(suggestedEdges, LAMBDA e : e.source \in DOMAIN map /\ e.target \in DOMAIN map)

\* function applyAISuggestion(suggestion)   (l. 897-949)
ApplyAISuggestion(suggestion) ==
    IF ~suggestion.valid
    THEN /\ last' = [op |-> "applyAISuggestion", applied |-> FALSE]
         /\ UNCHANGED canvasVars
         /\ UNCHANGED runVars
         /\ UNCHANGED panelVars
    ELSE LET added  == SuggestedNodes(suggestion.nodes, nextNodeIndex)
             map    == nodeIdMap(suggestion.nodes, nextNodeIndex)
             mapped == MappedEdges(suggestion.edges, map)
             ns     == nodes \o added
             es     == edges \o [i \in 1..Len(mapped) |->
                                   [id |-> AIEdgeIdOf(nextEdgeId + i - 1),
                                    source |-> map[mapped[i].source],
                                    target |-> map[mapped[i].target]]]
             at     == [id \in (DOMAIN argsText) \cup IdsOf(added) |->
                          IF id \in IdsOf(added) THEN Stringify(nodeById(added, id).args)
                          ELSE argsText[id]]
         IN  /\ nextNodeIndex + Len(added) - 1 <= MaxNodeIndex
             /\ nextEdgeId + Len(mapped) - 1 <= MaxEdgeId
             /\ nodes' = ns
             /\ nextNodeIndex' = nextNodeIndex + Len(added)
             /\ edges' = PruneEdges(ns, es)
             /\ nextEdgeId' = nextEdgeId + Len(mapped)
             /\ argsText' = InitArgsText(ns, at)
             /\ last' = [op |-> "applyAISuggestion", applied |-> TRUE]
             /\ UNCHANGED <<pendingSource, overlayLayers>>
             /\ UNCHANGED runVars
             /\ UNCHANGED panelVars

\* every id a node of the canvas can carry
WorkflowNodeIds == AllNodeIds \cup {AINodeIdOf(k) : k \in 1..MaxNodeIndex}

\* The canvas of a fresh session under addNode, deleteNode, applyAISuggestion
\* and loadWorkflow.
NextWorkflow ==
    \/ AddNode
    \/ \E id \in WorkflowNodeIds : DeleteNode(id)
    \/ \E suggestion \in Suggestions : ApplyAISuggestion(suggestion)
    \/ \E outcome \in LoadOutcomes : LoadWorkflow(outcome)

SpecWorkflow == Init /\ [][NextWorkflow]_vars

\* C30: in every reachable state of the canvas, after any sequence of
\* addNode, deleteNode, applyAISuggestion and loadWorkflow, no two nodes have
\* the same id; in particular addNode never creates a node whose id is
\* already present, also after a workflow was loaded or a node was deleted.
C30_UniqueNodeIds ==
    /\ \A i, j \in 1..Len(nodes) : i # j => nodes[i].id # nodes[j].id
    /\ last.op = "addNode" =>
          \A i \in 1..(Len(nodes) - 1) : nodes[i].id # last.id

\* The canvas of a fresh session under every operation that creates nodes or
\* edges: the handlers of SpecWorkflow and the connect handles.
NextEdges ==
    \/ NextWorkflow
    \/ \E id \in WorkflowNodeIds : ClickOutput(id)
    \/ \E id \in WorkflowNodeIds : ClickInput(id)

SpecEdges == Init /\ [][NextEdges]_vars

\* C31: in every reachable state of the canvas every edge has source #
\* target and no two edges share the same ordered (source, target) pair,
\* whichever operation created the edge: addEdge through the connect
\* handles, applyAISuggestion or loadWorkflow.
C31_EdgesWellFormed ==
    /\ \A i \in 1..Len(edges) : edges[i].source # edges[i].target
    /\ \A i, j \in 1..Len(edges) :
          (i # j) => <<edges[i].source, edges[i].target>> # <<edges[j].source, edges[j].target>>

(***************************************************************************)
(* Map preview.  previewNode registers the node's raster with the preview  *)
(* service, then replaces the node's overlay by a new tile layer, then     *)
(* fetches the bounds to fit the view; it is suspended at both fetches.    *)
(* The view of the map (fitBounds) is not part of the model.               *)
(***************************************************************************)
\* previewNode calls suspended at once
MaxPreviews == 2
\* L.tileLayer objects created
MaxLayers == 3

RasterType == "raster.input"
PathArgs == "{path:/a.tif}"
EmptyPathArgs == "{path:}"

\* nodes[i].args?.path, when it is a string   (l. 397)
ArgsPath(args) ==
    IF args = PathArgs THEN "/a.tif" ELSE IF args = EmptyPathArgs THEN "" ELSE NULL

\* function getRasterPathForNode(n, i)   (l. 394-399)
getRasterPathForNode(n, outputs) ==
    IF /\ n.id \in DOMAIN outputs
       /\ "type" \in DOMAIN outputs[n.id]
       /\ outputs[n.id].type = "raster"
       /\ outputs[n.id].path # ""
    THEN outputs[n.id].path
    ELSE IF n.type = RasterType /\ ArgsPath(n.args) # NULL
    THEN ArgsPath(n.args)
    ELSE NULL

\* onMount: map = L.map(...), layerControl = L.control.layers(...)   (l. 355-379)
MountMap ==
    /\ ~mapReady
    /\ mapReady' = TRUE
    /\ last' = [op |-> "mountMap"]
    /\ UNCHANGED <<mapLayers, controlLayers, nextLayer, previews>>
    /\ UNCHANGED editorVars
    /\ UNCHANGED runVars
    /\ UNCHANGED <<schedVars, monitorVars, runOnes, newestList>>

\* async function previewNode(n, i), up to its first await or its return
\* (l. 401-411)
PreviewNode(id) ==
    /\ id \in IdsOf(nodes)
    /\ LET pth == getRasterPathForNode(nodeById(nodes, id), lastOutputs)
       IN  IF ~mapReady \/ pth = NULL \/ pth = ""
           THEN /\ last' = [op |-> "previewNode", id |-> id, sent |-> FALSE]
                /\ UNCHANGED previews
           ELSE /\ Len(previews) < MaxPreviews
                /\ previews' = Append(previews, [id |-> id, pc |-> "register"])
                /\ last' = [op |-> "previewNode", id |-> id, sent |-> TRUE]
    /\ UNCHANGED <<mapReady, mapLayers, controlLayers, nextLayer>>
    /\ UNCHANGED editorVars
    /\ UNCHANGED runVars
    /\ UNCHANGED <<schedVars, monitorVars, runOnes, newestList>>

ExistingLayerKept(registry, id) == {}

\* if (overlayLayers.has(id)) the layer to remove first   (l. 416-421)
ExistingLayer(registry, id) == IF id \in DOMAIN registry THEN {registry[id]} ELSE {}

\* previewNode resumed by the outcome of POST /preview/register, up to its
\* second await; a rejected fetch ends the call   (l. 407-428)
RegisterReturns(i, settled) ==
    /\ i \in 1..Len(previews)
    /\ previews[i].pc = "register"
    /\ IF ~settled
       THEN /\ previews' = RemoveAt(previews, i)
            /\ UNCHANGED <<overlayLayers, mapLayers, controlLayers, nextLayer>>
       ELSE LET id       == previews[i].id
                existing == ExistingLayer(overlayLayers, id)
                newLayer == <<id, nextLayer>>
            IN  /\ nextLayer <= MaxLayers
                /\ overlayLayers' = [k \in (DOMAIN overlayLayers) \cup {id} |->
                                        IF k = id THEN newLayer ELSE overlayLayers[k]]
                /\ mapLayers' = (mapLayers \ existing) \cup {newLayer}
                /\ controlLayers' = (controlLayers \ existing) \cup {newLayer}
                /\ nextLayer' = nextLayer + 1
                /\ previews' = [previews EXCEPT ![i].pc = "bounds"]
    /\ last' = [op |-> "registerReturns", id |-> previews[i].id, settled |-> settled]
    /\ UNCHANGED mapReady
    /\ UNCHANGED <<nodes, nextNodeIndex, edges, nextEdgeId, pendingSource, argsText>>
    /\ UNCHANGED runVars
    /\ UNCHANGED <<schedVars, monitorVars, runOnes, newestList>>

\* previewNode resumed by the outcome of GET /preview/bounds/<id>: the view
\* is fitted or the call ends with an exception   (l. 428-432)
BoundsReturns(i) ==
    /\ i \in 1..Len(previews)
    /\ previews[i].pc = "bounds"
    /\ previews' = RemoveAt(previews, i)
    /\ last' = [op |-> "boundsReturns", id |-> previews[i].id]
    /\ UNCHANGED <<mapReady, mapLayers, controlLayers, nextLayer>>
    /\ UNCHANGED editorVars
    /\ UNCHANGED runVars
    /\ UNCHANGED <<schedVars, monitorVars, runOnes, newestList>>

\* function clearOverlayLayers(); its buttons are disabled while the
\* registry is empty   (l. 434-441, 992, 1037)
ClearOverlayLayers ==
    /\ DOMAIN overlayLayers # {}
    /\ IF ~mapReady
       THEN UNCHANGED <<overlayLayers, mapLayers, controlLayers>>
       ELSE /\ mapLayers' = mapLayers \ {overlayLayers[k] : k \in DOMAIN overlayLayers}
            /\ controlLayers' = controlLayers \ {overlayLayers[k] : k \in DOMAIN overlayLayers}
            /\ overlayLayers' = NoLayers
    /\ last' = [op |-> "clearOverlayLayers"]
    /\ UNCHANGED <<mapReady, nextLayer, previews>>
    /\ UNCHANGED <<nodes, nextNodeIndex, edges, nextEdgeId, pendingSource, argsText>>
    /\ UNCHANGED runVars
    /\ UNCHANGED <<schedVars, monitorVars, runOnes, newestList>>

\* The canvas the previews run on: n1 is a raster.input with a path, n2 a
\* raster.input with the default empty path, n3 a node whose output of the
\* last run is a raster.
PreviewNodes ==
    << [id |-> "n1", type |-> RasterType, args |-> PathArgs],
       [id |-> "n2", type |-> RasterType, args |-> EmptyPathArgs],
       NodeOf("n3") >>

InitPreview ==
    /\ nodes = PreviewNodes
    /\ nextNodeIndex = Len(PreviewNodes) + 1
    /\ edges = <<>>
    /\ nextEdgeId = 1
    /\ pendingSource = NULL
    /\ argsText = InitArgsText(nodes, [id \in {} |-> ""])
    /\ overlayLayers = NoLayers
    /\ InitMap
    /\ newestList = NoListAsked
    /\ logs = <<>>
    /\ running = FALSE
    /\ lastOutputs = [id \in {"n3"} |-> [type |-> "raster", path |-> "/o.tif"]]
    /\ showLogs = FALSE
    /\ run = [pc |-> "idle", order |-> <<>>, k |-> 1, active |-> 0,
              upstreamOf |-> [t \in {} |-> <<>>], done |-> <<>>]
    /\ requests = <<>>
    /\ InitSchedulePanel
    /\ InitRunMonitor
    /\ last = [op |-> "init"]

NextPreview ==
    \/ MountMap
    \/ \E id \in CanvasNodeIds : PreviewNode(id)
    \/ \E i \in 1..MaxPreviews, settled \in BOOLEAN : RegisterReturns(i, settled)
    \/ \E i \in 1..MaxPreviews : BoundsReturns(i)
    \/ \E id \in CanvasNodeIds : DeleteNode(id)
    \/ ClearOverlayLayers

SpecPreview == InitPreview /\ [][NextPreview]_vars

\* the layers the registry holds
RegisteredLayers == { overlayLayers[k] : k \in DOMAIN overlayLayers }

\* C32: the overlay registry holds at most one layer per node id: the layers
\* on the map and in the layer control are exactly the registered ones, one
\* per node id at most (previewNode for a node that has a layer removes it
\* from the map and the control before adding the new one), and deleteNode of
\* a node with a layer removes the layer from the map, the layer control and
\* the registry, and the node with it.
C32_OneLayerPerNode ==
    [][ /\ \A k \in DOMAIN overlayLayers' : overlayLayers'[k][1] = k
        /\ mapLayers' = RegisteredLayers'
        /\ controlLayers' = RegisteredLayers'
        /\ \A a, b \in mapLayers' : a[1] = b[1] => a = b
        /\ ( last'.op = "registerReturns" /\ last'.settled
             /\ last'.id \in DOMAIN overlayLayers ) =>
               /\ overlayLayers[last'.id] \notin (mapLayers' \cup controlLayers')
               /\ overlayLayers'[last'.id] # overlayLayers[last'.id]
        /\ ( last'.op = "deleteNode" /\ last'.id \in DOMAIN overlayLayers ) =>
               /\ overlayLayers[last'.id] \notin (mapLayers' \cup controlLayers')
               /\ last'.id \notin DOMAIN overlayLayers'
               /\ last'.id \notin IdsOf(nodes') ]_vars

\* C32 witness: n1 was previewed twice and holds its second layer alone,
\* after n3, which had a layer, was deleted
C32_Witness ==
    /\ DOMAIN overlayLayers = {"n1"}
    /\ overlayLayers["n1"][2] > 1
    /\ mapLayers = {overlayLayers["n1"]}
    /\ nextLayer = 4
    /\ "n3" \notin IdsOf(nodes)
    /\ last.op = "deleteNode"

\* C39: whenever no preview request is in flight, every id in the overlay
\* registry is the id of a node that exists on the canvas, also when
\* deleteNode(id) runs while previewNode for that id is suspended on its
\* register request and resumes afterwards.
C39_RegistryOnlyForExistingNodes ==
    previews = <<>> => DOMAIN overlayLayers \subseteq IdsOf(nodes)

\* C33: in every run each node whose executor request is issued has had every
\* one of its predecessors (the sources of the active edges into it)
\* attempted earlier in the same run; an invoked node lacks an input entry for
\* a predecessor only when that predecessor's execution failed, never because
\* the predecessor was left out of the order for being on a cycle.
C33_PredecessorsAttemptedFirst ==
    [][ /\ ( last'.op = "runPipeline" /\ last'.started ) =>
              \A t \in Range(run'.order) :
                 /\ SourcesInto(edges, t) \subseteq Range(run'.order)
                 /\ \A up \in SourcesInto(edges, t) :
                       /\ t \in DOMAIN run'.upstreamOf
                       /\ up \in Range(run'.upstreamOf[t])
                       /\ PositionIn(run'.order, up) < PositionIn(run'.order, t)
        /\ ( last'.op \in {"runPipeline", "runNodeReturns"}
             /\ Len(requests') > (IF last'.op = "runPipeline" THEN 0 ELSE Len(requests)) ) =>
              LET r      == requests'[Len(requests')]
                  before == DoneBefore(run'.done, r.nodeId)
                  into   == IF r.nodeId \in DOMAIN run'.upstreamOf
                            THEN Range(run'.upstreamOf[r.nodeId]) ELSE {}
              IN  \A up \in into :
                     /\ up \in Range(HandledIds(before))
                     /\ up \notin DOMAIN r.inputs <=> up \notin StoredInRun(before) ]_vars

\* C33 witness: on n1 -> n2 beside the self-loop n3 -> n3 the order leaves
\* n3 out; n2 was invoked after its predecessor n1 had failed, without an
\* input entry for it
C33_Witness ==
    /\ run.active = 3
    /\ run.order = <<"n1", "n2">>
    /\ Len(requests) = 2
    /\ run.done[1].failed
    /\ requests[2].nodeId = "n2"
    /\ DOMAIN requests[2].inputs = {}

(***************************************************************************)
(* The run-this-node-only button of a node card: one POST /run_node with   *)
(* empty inputs, one log line for its outcome.  The button is not disabled *)
(* while a pipeline run is in progress.                                    *)
(***************************************************************************)
\* run-this-node-only handlers suspended at once
MaxRunOnes == 1
\* the button is pressed while the log view has fewer lines than this
MaxLogLines == 2

\* on:click of the run-this-node-only button, up to its await   (l. 1155-1158)
RunOneNode(id) ==
    /\ id \in IdsOf(nodes)
    /\ Len(runOnes) < MaxRunOnes
    /\ Len(logs) < MaxLogLines
    /\ runOnes' = Append(runOnes, [id |-> id])
    /\ last' = [op |-> "runOneNode", id |-> id,
                issued |-> <<RequestBody(nodeById(nodes, id), [up \in {} |-> UNDEFINED])>>]
    /\ UNCHANGED <<editorVars, mapVars>>
    /\ UNCHANGED runVars
    /\ UNCHANGED <<schedVars, monitorVars, newestList>>

\* what a request can come back with where the log view is shared: a
\* rejected fetch, an unparsable body, or a body with ok true or false
RunOneResponses ==
    { resp \in ExecutorResponses :
        resp.kind # "data" \/ (resp.http = "2xx" /\ resp.logs = <<"l1">>)
                           \/ (resp.http = "2xx" /\ resp.logs = <<>>) }

\* data?.ok ? (data?.output?.message || 'Started') : (data?.error || 'Error')
\* (l. 1160-1162); no output of the model carries a message
RunOneText(data) ==
    IF data.ok THEN "Started" ELSE IF data.error # "" THEN data.error ELSE "Error"

\* the handler resumed by the outcome of its request: the drawer is opened
\* and one line pushed; the reactive block runs last   (l. 1158-1170, 573)
RunOneReturns(i, resp) ==
    /\ i \in 1..Len(runOnes)
    /\ LET id   == runOnes[i].id
           data == DataOf(resp)
       IN  /\ logs' = IF resp.kind = "throw"
                      THEN pushLog(logs, id, FALSE, "Exception: fetch failed")
                      ELSE pushLog(logs, id, data.ok, RunOneText(data))
           /\ last' = [op |-> "runOneReturns", id |-> id, issued |-> <<>>]
    /\ showLogs' = TRUE
    /\ runOnes' = RemoveAt(runOnes, i)
    /\ runPollTimer' = IF destroyed THEN runPollTimer ELSE StopIfClosed(TRUE, runPollTimer)
    /\ UNCHANGED <<running, lastOutputs, run, requests>>
    /\ UNCHANGED <<editorVars, mapVars, schedVars, newestList>>
    /\ UNCHANGED <<polls, latestRun, destroyed, watch>>

(***************************************************************************)
(* The log view shared by its three writers: a pipeline run on the canvas  *)
(* n1 -> n2, the run monitor of job j1 (whose latest run is running on the *)
(* server) and the run-this-node-only buttons.                             *)
(***************************************************************************)
InitShared ==
    /\ nodes = NodeListOf({"n1", "n2"})
    /\ nextNodeIndex = Cardinality(CanvasNodeIds) + 1
    /\ edges = <<[id |-> EdgeIdOf(1), source |-> "n1", target |-> "n2"]>>
    /\ nextEdgeId = Len(edges) + 1
    /\ pendingSource = NULL
    /\ argsText = InitArgsText(nodes, [id \in {} |-> ""])
    /\ overlayLayers = NoLayers
    /\ InitMap
    /\ newestList = NoListAsked
    /\ logs = <<>>
    /\ running = FALSE
    /\ lastOutputs = [id \in {} |-> UNDEFINED]
    /\ showLogs = FALSE
    /\ run = [pc |-> "idle", order |-> <<>>, k |-> 1, active |-> 0,
              upstreamOf |-> [t \in {} |-> <<>>], done |-> <<>>]
    /\ requests = <<>>
    /\ showPipelineScheduleModal = FALSE
    /\ scheduleMode = "once"
    /\ scheduleLocalDateTime = ""
    /\ scheduleHours = Num(0)
    /\ scheduleMinutes = Num(0)
    /\ scheduleSeconds = Num(0)
    /\ scheduleCron = DefaultCron
    /\ scheduleSubmitting = FALSE
    /\ scheduleError = ""
    /\ schedules = <<[id |-> "j1"]>>
    /\ calls = <<>>
    /\ runPollTimer = NULL
    /\ polls = <<>>
    /\ latestRun = [j \in JobIds |-> IF j = "j1" THEN "running" ELSE "none"]
    /\ destroyed = FALSE
    /\ watch = [job |-> NULL, established |-> FALSE, sawTerminal |-> FALSE]
    /\ last = [op |-> "init"]

NextShared ==
    \/ RunPipeline
    \/ \E resp \in RunOneResponses : RunNodeReturns(resp)
    \/ OpenJobLogs("j1")
    \/ TimerFires
    \/ \E i \in 1..MaxPolls : \E answered \in BOOLEAN : PollReturns(i, answered)
    \/ \E id \in CanvasNodeIds : RunOneNode(id)
    \/ \E i \in 1..MaxRunOnes : \E resp \in RunOneResponses : RunOneReturns(i, resp)

SpecShared == InitShared /\ [][NextShared]_vars

\* C34: while a pipeline run is in progress the log view consists only of the
\* lines emitted by that run, in emission order: neither a tick of an active
\* run-monitor poll nor a single-node run started from a node's own button
\* replaces, removes or inserts lines in it.
C34_LogViewOwnedByRun ==
    [][ ( running /\ running'
          /\ \/ last'.op \in {"timerFires", "runOneNode", "runOneReturns"}
             \/ (last'.op = "pollReturns" /\ last'.from = "tick") )
        => logs' = logs ]_vars

(***************************************************************************)
(* The Run now button of a schedule: runNow(j.id) and openJobLogs(j.id) in *)
(* one click (l. 1094).  The server records the new run when it handles    *)
(* the run-now request, at any moment before it answers it; until then the *)
(* run list of the job starts with its earlier run.                        *)
(***************************************************************************)
\* the status of the job's earlier run, which failed
EarlierRun == "error"
\* how the run started by Run now ends
TriggeredRunEnd == "success"

\* on:click={() => { runNow(j.id); openJobLogs(j.id); }}, both up to their
\* first await, then the reactive block   (l. 1094, 540-543, 692-693)
RunNowClick(job) ==
    /\ ~destroyed
    /\ \E i \in 1..Len(schedules) : schedules[i].id = job
    /\ Len(calls) < MaxCalls
    /\ Len(polls) < MaxPolls
    /\ calls' = Append(calls, [op |-> "runNow", job |-> job, pc |-> "op"])
    /\ showLogs' = TRUE
    /\ logs' = <<>>
    /\ polls' = Append(polls, [job |-> job, pc |-> "list", from |-> "open"])
    /\ runPollTimer' = StopIfClosed(TRUE, runPollTimer)
    /\ watch' = [job |-> job, established |-> FALSE, sawTerminal |-> FALSE]
    /\ last' = [op |-> "runNowClick", job |-> job,
                issued |-> <<JobRequest("runNow", job),
                             [method |-> "GET",
                              url |-> "/pipeline/schedules/" \o job \o "/runs"]>>]
    /\ UNCHANGED <<showPipelineScheduleModal, formVars, scheduleSubmitting, scheduleError,
                   schedules>>
    /\ UNCHANGED <<running, lastOutputs, run, requests, latestRun, destroyed>>
    /\ UNCHANGED canvasVars

\* the server handles POST /pipeline/schedules/<job>/run-now: the new run
\* is recorded as the latest run of the job
RunNowServed(job) ==
    /\ \E i \in 1..Len(calls) : calls[i].op = "runNow" /\ calls[i].job = job
    /\ latestRun[job] = EarlierRun
    /\ latestRun' = [latestRun EXCEPT ![job] = "running"]
    /\ last' = [op |-> "runNowServed", job |-> job, issued |-> <<>>]
    /\ UNCHANGED <<runPollTimer, polls, destroyed, watch>>
    /\ UNCHANGED <<canvasVars, runVars, schedVars>>

\* runNow resumed by the outcome of its request; a 2xx answer comes after the
\* server has recorded the run   (l. 692-694)
RunNowReturns(i, outcome) ==
    /\ i \in 1..Len(calls)
    /\ calls[i].op = "runNow"
    /\ (outcome.kind = "response" /\ outcome.ok) => latestRun[calls[i].job] # EarlierRun
    /\ ScheduleCallReturns(i, outcome)

InitRunNow ==
    /\ nodes = <<>>
    /\ nextNodeIndex = 1
    /\ edges = <<>>
    /\ nextEdgeId = 1
    /\ pendingSource = NULL
    /\ argsText = [id \in {} |-> ""]
    /\ overlayLayers = NoLayers
    /\ InitMap
    /\ newestList = NoListAsked
    /\ logs = <<>>
    /\ running = FALSE
    /\ lastOutputs = [id \in {} |-> UNDEFINED]
    /\ showLogs = FALSE
    /\ run = [pc |-> "idle", order |-> <<>>, k |-> 1, active |-> 0,
              upstreamOf |-> [t \in {} |-> <<>>], done |-> <<>>]
    /\ requests = <<>>
    /\ showPipelineScheduleModal = FALSE
    /\ scheduleMode = "once"
    /\ scheduleLocalDateTime = ""
    /\ scheduleHours = Num(0)
    /\ scheduleMinutes = Num(0)
    /\ scheduleSeconds = Num(0)
    /\ scheduleCron = DefaultCron
    /\ scheduleSubmitting = FALSE
    /\ scheduleError = ""
    /\ schedules = <<[id |-> "j1"], [id |-> "j2"]>>
    /\ calls = <<>>
    /\ runPollTimer = NULL
    /\ polls = <<>>
    /\ latestRun = [j \in JobIds |-> EarlierRun]
    /\ destroyed = FALSE
    /\ watch = [job |-> NULL, established |-> FALSE, sawTerminal |-> FALSE]
    /\ last = [op |-> "init"]

NextRunNow ==
    \/ \E job \in JobIds : RunNowClick(job)
    \/ \E job \in JobIds : RunNowServed(job)
    \/ \E i \in 1..MaxCalls : \E outcome \in FetchOutcomes : RunNowReturns(i, outcome)
    \/ TimerFires
    \/ \E i \in 1..MaxPolls : \E answered \in BOOLEAN : PollReturns(i, answered)
    \/ \E job \in JobIds : RunEnds(job, TriggeredRunEnd)

SpecRunNow == InitRunNow /\ [][NextRunNow]_vars

\* C35: after the Run now action on a schedule the monitor keeps polling
\* until the run triggered by that action has been shown with a terminal
\* status: a poll of the job stops the timer only when it shows that run
\* ended, not on the terminal status of the job's earlier run fetched before
\* the new run was recorded.
C35_PollsUntilTriggeredRunShown ==
    [][ ( last'.op = "pollReturns" /\ last'.job = watch.job
          /\ runPollTimer = watch.job /\ runPollTimer' = NULL )
        => logs' = RunLogLines(last'.job, TriggeredRunEnd) ]_vars

(***************************************************************************)
(* Canvas edits while a run is suspended.  order and upstreamOf are locals *)
(* of runPipeline (const, l. 218 and 223): the loop reads the canvas again *)
(* only through nodeById(id) at each node's turn.                          *)
(***************************************************************************)
\* the entries the step adds to the record of handled nodes
NewlyHandled == (Len(run.done) + 1)..Len(run'.done)

\* C36: while a run is in flight no step, a deleteNode included, changes the
\* run's order or its upstream index; the nodes are handled in exactly that
\* order; a node that is no longer on the canvas at its turn gets one failure
\* line tagged with its id and no request, and the loop goes on: the next node
\* still present has its request sent, and when the order is exhausted every
\* node of the order has been handled and running is false.
C36_RunKeepsItsOrder ==
    [][ running =>
          /\ ( last'.op # "runPipeline" =>
                 /\ run'.order = run.order
                 /\ run'.upstreamOf = run.upstreamOf )
          /\ ( last'.op = "deleteNode" =>
                 /\ run' = run
                 /\ requests' = requests
                 /\ logs' = logs
                 /\ running' )
          /\ ( last'.op = "runNodeReturns" =>
                 /\ \A j \in NewlyHandled :
                       /\ run'.done[j].id = run.order[j]
                       /\ ( j > Len(run.done) + 1 =>
                              /\ run.order[j] \notin IdsOf(nodes)
                              /\ ~run'.done[j].sent
                              /\ Cardinality(FailureLines(logs', run.order[j])) = 1
                              /\ \A r \in 1..Len(requests') :
                                    requests'[r].nodeId # run.order[j] )
                 /\ IF run'.pc = "awaiting"
                    THEN /\ run'.k = Len(run'.done) + 1
                         /\ run.order[run'.k] \in IdsOf(nodes)
                         /\ Len(requests') = Len(requests) + 1
                         /\ requests'[Len(requests')].nodeId = run.order[run'.k]
                         /\ DOMAIN requests'[Len(requests')].inputs
                               \subseteq RecordedSources(run.order[run'.k])
                         /\ running'
                    ELSE /\ HandledIds(run'.done) = run.order
                         /\ requests' = requests
                         /\ ~running' ) ]_vars

\* a run has ended after a node of its order was deleted before its turn: the
\* node was handled without a request and a node after it had its request sent
C36_Witness ==
    /\ ~running
    /\ run.pc = "idle"
    /\ last.op = "runNodeReturns"
    /\ Len(run.order) = 3
    /\ HandledIds(run.done) = run.order
    /\ ~run.done[2].sent
    /\ run.done[3].sent
    /\ run.order[2] \notin IdsOf(nodes)

(***************************************************************************)
(* Several refreshes of the schedule list outstanding at once.  Each call  *)
(* of refreshSchedules assigns schedules when its own response arrives     *)
(* (l. 672, 677); nothing orders the assignments by the time the requests  *)
(* were issued.                                                            *)
(***************************************************************************)
\* C37: when the last response outstanding arrives after the request for the
\* list issued last was answered with a list, the list displayed once it has
\* arrived is that answer.
C37_NewestResponseDisplayed ==
    [][ ( last'.op = "scheduleCallReturns" /\ calls' = <<>> /\ newestList.shown )
        => schedules' = newestList.list ]_vars

\* C37, second part: a refresh whose two requests (the list and the fallback)
\* both fail leaves the displayed list as it is.
C37_FailedRefreshKeepsList ==
    [][ ( last'.op = "scheduleCallReturns" /\ last'.pc = "fallback" /\ last'.failed )
        => schedules' = schedules ]_vars

(***************************************************************************)
(* The closed drawer.  Every handler of the live component ends with the   *)
(* reactive block $: if (!showLogs && runPollTimer) {...} (l. 573), the    *)
(* continuation of openJobLogs that stores the interval included; a        *)
(* destroyed component runs its reactive blocks no more.                   *)
(***************************************************************************)
\* C38: in every state of the live component, that is whenever the reactive
\* updates have run, a closed drawer has no poll timer: runPollTimer is null.
C38_ClosedDrawerHasNoTimer ==
    ( ~destroyed /\ ~showLogs ) => runPollTimer = NULL

\* the drawer was closed while openJobLogs awaited its first poll; the poll
\* has returned, openJobLogs has stored its interval, and the reactive block
\* has cleared it again
C38_Witness ==
    /\ ~destroyed
    /\ ~showLogs
    /\ last.op = "pollReturns"
    /\ last.from = "open"
    /\ last.issued = <<>>
    /\ watch.established
    /\ runPollTimer = NULL

====
